---- MODULE Spec2Model ----
(***************************************************************************)
(* A model of the request handlers of the school-administration web        *)
(* application: the keyword chatbot, the parent-teacher chat, the parent's  *)
(* view of a child, the teacher's class and grade views, announcements and  *)
(* notifications (src/information, src/users, src/monitoring).             *)
(*                                                                         *)
(* Text is modelled as a sequence of one-character strings, so that        *)
(* str.strip, str.lower, str.split and the substring test `in` are         *)
(* computed the way Python computes them.                                  *)
(***************************************************************************)
EXTENDS Integers, Sequences, FiniteSets, TLC

VARIABLES
    bots,       \* the BotMessage table: id -> record
    botResp,    \* the last chatbot_query request and its JsonResponse
    rooms,      \* the ChatRoom table: a sequence, a row's id is its index
    msgs,       \* the ChatMessage table: a sequence, a row's id is its index
    now,        \* the clock read by timezone.now()
    pc,         \* where each request worker stands in start_chat
    req,        \* the locals of the request a worker is serving
    redirects,  \* every <<parent, teacher, room id>> start_chat redirected to
    chatResp,   \* the chat request being answered and its response
    guardians,  \* Child.parents: child -> the set of its Parent rows
    attendance, \* the Attendance table: a set of rows, one per (child, date)
    childResp,  \* the parent-view request being answered and its response
    classes,    \* the Class table: class id -> the Teacher who owns it
    finalGrades,\* the FinalGrade table: grade id -> record
    classResp,  \* the teacher-view request being answered and its response
    anns,       \* the Announcement table: id -> record
    annReads,   \* the AnnouncementRead table: <<announcement, user>> -> number of rows
    annResp,    \* the last announcement request answered and its response
    apc,        \* where each worker stands in announcement_detail or chatbot_query
    aloc,       \* the locals of the request a worker is serving
    started,    \* how many counting requests were started
    annDone,    \* the <<announcement, user>> pairs of the completed detail views
    incs,       \* per counter, how many completed requests incremented it
    raced,      \* a request started while another stood between read and save
    spc,        \* where each worker stands in send_message
    sloc,       \* the locals of the send_message request a worker is serving
    notifs,     \* the Notification table: id -> record
    notifResp,  \* the last notification request answered and its response
    studentResp,\* the last student-records request answered and its response
    events,     \* the Event table: id -> record
    eventResp,  \* the last event request answered and its response
    mpc,        \* where each worker stands in a mark-as-read loop
    mloc        \* the locals of the mark-as-read request a worker is serving

botVars == <<bots, botResp>>
chatVars == <<rooms, msgs, now, pc, req, redirects, chatResp>>
childVars == <<guardians, attendance, childResp>>
classVars == <<classes, finalGrades, classResp>>

\* the tables of the handlers modelled first, and those of the rest
baseVars == <<botVars, chatVars, childVars>>
annVars == <<anns, annReads, annResp, apc, aloc, started, annDone, incs, raced>>
sendVars == <<spc, sloc>>
notifVars == <<notifs, notifResp>>
studentVars == <<studentResp>>
eventVars == <<events, eventResp>>
markVars == <<mpc, mloc>>
moreVars == <<studentVars, eventVars, markVars>>
restVars == <<classVars, annVars, sendVars, notifVars, moreVars>>

\* all but the variables of one section
notClassVars == <<baseVars, annVars, sendVars, notifVars, moreVars>>
notAnnVars == <<baseVars, classVars, sendVars, notifVars, moreVars>>
notAnnBotVars == <<chatVars, childVars, classVars, sendVars, notifVars, moreVars>>
notNotifVars == <<baseVars, classVars, annVars, sendVars, moreVars>>

\* the variables of the sections up to the notifications
coreVars == <<baseVars, classVars, annVars, sendVars, notifVars>>

vars == <<bots, botResp, rooms, msgs, now, pc, req, redirects, chatResp,
          guardians, attendance, childResp, classes, finalGrades, classResp,
          anns, annReads, annResp, apc, aloc, started, annDone, incs, raced,
          spc, sloc, notifs, notifResp, studentResp, events, eventResp,
          mpc, mloc>>

NULL == "None"

\* a DateTimeField that is null (clock values start at 1)
NoTime == 0

(***************************************************************************)
(* Text helpers (Python str methods used by the handlers).                 *)
(***************************************************************************)

\* str.lower on one character
LowerChar(c) ==
    CASE c = "A" -> "a"
      [] c = "B" -> "b"
      [] c = "C" -> "c"
      [] OTHER -> c

\* str.lower
Lower(s) == [i \in 1..Len(s) |-> LowerChar(s[i])]

IsSpace(c) == c = " "

RECURSIVE LStrip(_)
LStrip(s) ==
    IF s = <<>> THEN <<>>
    ELSE IF IsSpace(Head(s)) THEN LStrip(Tail(s))
    ELSE s

RECURSIVE RStrip(_)
RStrip(s) ==
    IF s = <<>> THEN <<>>
    ELSE IF IsSpace(s[Len(s)]) THEN RStrip(SubSeq(s, 1, Len(s) - 1))
    ELSE s

Strip_None(s) == s

\* str.strip: leading and trailing whitespace removed
Strip(s) == RStrip(LStrip(s))

\* str.split(','): the pieces between the commas, empty pieces kept
RECURSIVE SplitAcc(_, _, _)
SplitAcc(s, cur, acc) ==
    IF s = <<>> THEN Append(acc, cur)
    ELSE IF Head(s) = "," THEN SplitAcc(Tail(s), <<>>, Append(acc, cur))
    ELSE SplitAcc(Tail(s), Append(cur, Head(s)), acc)

Split(s) == SplitAcc(s, <<>>, <<>>)

\* `k in q` on Python strings: k occurs as a contiguous substring of q
Contains(q, k) ==
    \E i \in 0..(Len(q) - Len(k)) : SubSeq(q, i + 1, i + Len(k)) = k


(***************************************************************************)
(* Chatbot (information/views.py chatbot_query, models.py BotMessage).     *)
(***************************************************************************)

MaxPriority == 1    \* priorities are drawn from 0..MaxPriority
MaxUsage == 2       \* at most this many matches are counted in a run

\* ids of the BotMessage rows
BotIds == {1, 2, 3}

\* values of the comma-separated keywords field: "a", "B, ab", "ba,"
KeywordFields ==
    << <<"a">>,
       <<"B", ",", " ", "a", "b">>,
       <<"b", "a", ",">> >>

\* raw values of the POST parameter 'query': "", " ", "A", "b ", " aB", "c"
Queries ==
    { <<>>,
      <<" ">>,
      <<"A">>,
      <<"b", " ">>,
      <<" ", "a", "B">>,
      <<"c">> }

\* response_text of the record with id i (one distinct text per record)
ResponseTextOf(i) == "response " \o ToString(i)

Fallback ==
    "I'm sorry, I don't understand. Please try rephrasing your question or contact support."

\* BotMessage.get_keywords_list
GetKeywordsList(b) ==
    LET parts == Split(b.keywords)
    IN  [i \in 1..Len(parts) |-> Lower(Strip(parts[i]))]

\* any(keyword in query for keyword in keywords)
KeywordMatch(b, q) ==
    LET keywords == GetKeywordsList(b)
    IN  \E i \in 1..Len(keywords) : Contains(q, keywords[i])

ActiveFilter_All(bt) == DOMAIN bt

\* BotMessage.objects.filter(is_active=True)
ActiveFilter(bt) == {i \in DOMAIN bt : bt[i].is_active}

OrderByPriority_Asc(bt, a, b) == bt[a].priority <= bt[b].priority

\* order_by('-priority'): a may come before b
OrderByPriority(bt, a, b) == bt[a].priority >= bt[b].priority

\* the rows the queryset may yield, in every order the database may return
\* them: descending priority, ties in any order
BotQuerysets(bt) ==
    LET ids == ActiveFilter(bt)
        n == Cardinality(ids)
    IN  { seq \in [1..n -> ids] :
            /\ \A i, j \in 1..n : i # j => seq[i] # seq[j]
            /\ \A i, j \in 1..n : i < j => OrderByPriority(bt, seq[i], seq[j]) }

RECURSIVE BotLoop_NoBreak(_, _, _, _)
BotLoop_NoBreak(bt, seq, q, response) ==
    IF seq = <<>> THEN [bots |-> bt, response |-> response]
    ELSE LET b == Head(seq)
         IN  IF KeywordMatch(bt[b], q)
             THEN BotLoop_NoBreak([bt EXCEPT ![b].usage_count = @ + 1],
                                  Tail(seq), q, bt[b].response_text)
             ELSE BotLoop_NoBreak(bt, Tail(seq), q, response)

\* the for loop of chatbot_query: the first matching record answers, its
\* usage_count is incremented and saved, and the loop breaks
RECURSIVE BotLoop(_, _, _, _)
BotLoop(bt, seq, q, response) ==
    IF seq = <<>> THEN [bots |-> bt, response |-> response]
    ELSE LET b == Head(seq)
         IN  IF KeywordMatch(bt[b], q)
             THEN [bots |-> [bt EXCEPT ![b].usage_count = @ + 1],
                   response |-> bt[b].response_text]
             ELSE BotLoop(bt, Tail(seq), q, response)

\* request.POST.get('query', '').strip().lower()
NormalizeQuery(raw) == Lower(Strip(raw))

NoBotResp == [method |-> NULL, query |-> <<>>, status |-> 0, body |-> NULL]

RECURSIVE SumUsage(_, _)
SumUsage(bt, ids) ==
    IF ids = {} THEN 0
    ELSE LET i == CHOOSE x \in ids : TRUE
         IN  bt[i].usage_count + SumUsage(bt, ids \ {i})

\* The table holds any rows: every keywords field, priority and is_active
\* flag. Row ids are interchangeable (the handler never reads an id, and the
\* order of equal priorities is left open), so one table stands for all its
\* renumberings: the rows are taken in non-decreasing order of their values.
BotRank(k, p, a) == ((k - 1) * (MaxPriority + 1) + p) * 2 + (IF a THEN 1 ELSE 0)

BotInit ==
    /\ \E kw \in [BotIds -> 1..Len(KeywordFields)],
          pr \in [BotIds -> 0..MaxPriority],
          ac \in [BotIds -> BOOLEAN] :
          /\ \A i, j \in BotIds :
                i < j => BotRank(kw[i], pr[i], ac[i]) <= BotRank(kw[j], pr[j], ac[j])
          /\ bots = [i \in BotIds |->
                       [keywords |-> KeywordFields[kw[i]],
                        response_text |-> ResponseTextOf(i),
                        priority |-> pr[i],
                        usage_count |-> 0,
                        is_active |-> ac[i]]]
    /\ botResp = NoBotResp

\* no BotMessage rows
BotIdle == bots = <<>> /\ botResp = NoBotResp

\* chatbot_query, any method but POST
ChatbotQueryNotPost ==
    /\ botResp' = [method |-> "GET", query |-> <<>>,
                   status |-> 400, body |-> "Invalid request"]
    /\ UNCHANGED bots
    /\ UNCHANGED <<chatVars, childVars, restVars>>

\* chatbot_query, POST
ChatbotQuery(raw) ==
    LET query == NormalizeQuery(raw)
    IN  IF query = <<>>
        THEN /\ botResp' = [method |-> "POST", query |-> query,
                            status |-> 400, body |-> "Query cannot be empty"]
             /\ UNCHANGED bots
             /\ UNCHANGED <<chatVars, childVars, restVars>>
        ELSE \E seq \in BotQuerysets(bots) :
                LET r == BotLoop(bots, seq, query, NULL)
                    response == IF r.response = NULL \/ r.response = ""
                                THEN Fallback ELSE r.response
                IN  /\ SumUsage(r.bots, DOMAIN r.bots) <= MaxUsage
                    /\ bots' = r.bots
                    /\ botResp' = [method |-> "POST", query |-> query,
                                   status |-> 200, body |-> response]
                    /\ UNCHANGED <<chatVars, childVars, restVars>>

BotNext ==
    \/ ChatbotQueryNotPost
    \/ \E raw \in Queries : ChatbotQuery(raw)

(***************************************************************************)
(* Users and their profiles (users/views.py; the User, Parent and Teacher  *)
(* models).                                                                *)
(***************************************************************************)

Users == {"ann", "ben", "tess", "tom", "root"}

\* User.role
Role(u) ==
    CASE u \in {"ann", "ben"} -> "parent"
      [] u \in {"tess", "tom"} -> "teacher"
      [] OTHER -> "admin"

\* User.is_parent, User.is_teacher
IsParent(u) == Role(u) = "parent"
IsTeacher(u) == Role(u) = "teacher"

\* request.user.parent_profile, request.user.teacher_profile: the one
\* profile of a user of that role
ParentProfile(u) == CASE u = "ann" -> "P1" [] u = "ben" -> "P2"
TeacherProfile(u) == CASE u = "tess" -> "T1" [] u = "tom" -> "T2"

\* the Parent and Teacher rows
Parents == {"P1", "P2"}
Teachers == {"T1", "T2"}

\* the teacher ids a start_chat request may name: a teacher, and an id that
\* is no teacher's
TeacherIds == {"T1", "T9"}

\* parent.user, teacher.user
ParentUser(p) == CHOOSE u \in Users : IsParent(u) /\ ParentProfile(u) = p
TeacherUser(t) == CHOOSE u \in Users : IsTeacher(u) /\ TeacherProfile(u) = t

\* @parent_required: only a parent reaches the view
ParentRequired(u) == IsParent(u)

(***************************************************************************)
(* Chat (information/views.py chat_room, start_chat, send_message,         *)
(* mark_messages_read; models.py ChatRoom, ChatMessage).                   *)
(***************************************************************************)

MaxMsgs == 3        \* ChatMessage rows created in a run

\* the request workers that may serve start_chat requests at the same time
Workers == {"w1", "w2"}

\* the room ids a request may name: every existing id and one that is not
RoomIds == 1..(Cardinality(Parents) * Cardinality(TeacherIds \cap Teachers) + 1)

\* raw values of the POST parameter 'content': "", "  ", " hi "
Contents ==
    { <<>>,
      <<" ", " ">>,
      <<" ", "h", "i", " ">> }

NoReq == [user |-> NULL, parent |-> NULL, teacher |-> NULL]

NoChatResp ==
    [view |-> NULL, user |-> NULL, room |-> 0, method |-> NULL,
     content |-> <<>>, status |-> 0, note |-> NULL, count |-> 0]

\* a request and its response, as the log keeps it: the user and the room
\* are kept once the handler has looked them up
ChatLog(view, user, room, method, content, status, note, count) ==
    [view |-> view, user |-> user, room |-> room, method |-> method,
     content |-> content, status |-> status, note |-> note, count |-> count]

ChatInit ==
    /\ rooms = <<>>
    /\ msgs = <<>>
    /\ now = 1
    /\ pc = [w \in Workers |-> "idle"]
    /\ req = [w \in Workers |-> NoReq]
    /\ redirects = {}
    /\ chatResp = NoChatResp

RoomOfParent_AnyParent(rs, rid, parent) == rid \in DOMAIN rs

\* get_object_or_404(ChatRoom, id=room_id, parent=parent) finds a row
RoomOfParent(rs, rid, parent) == rid \in DOMAIN rs /\ rs[rid].parent = parent

\* get_object_or_404(ChatRoom, id=room_id, teacher=teacher) finds a row
RoomOfTeacher(rs, rid, teacher) == rid \in DOMAIN rs /\ rs[rid].teacher = teacher

RoomAccess_NoRoleCheck(u, rid) ==
    IF IsParent(u)
    THEN IF RoomOfParent(rooms, rid, ParentProfile(u)) THEN "room" ELSE "404"
    ELSE IF IsTeacher(u)
    THEN IF RoomOfTeacher(rooms, rid, TeacherProfile(u)) THEN "room" ELSE "404"
    ELSE IF rid \in DOMAIN rooms THEN "room" ELSE "404"

\* the access check shared by chat_room, send_message and mark_messages_read
RoomAccess(u, rid) ==
    IF IsParent(u)
    THEN IF RoomOfParent(rooms, rid, ParentProfile(u)) THEN "room" ELSE "404"
    ELSE IF IsTeacher(u)
    THEN IF RoomOfTeacher(rooms, rid, TeacherProfile(u)) THEN "room" ELSE "404"
    ELSE "neither"

Unread_OwnToo(ms, rid, u) ==
    {i \in DOMAIN ms : ms[i].chat_room = rid /\ ~ms[i].is_read}

\* room.messages.filter(is_read=False).exclude(sender=request.user)
Unread(ms, rid, u) ==
    {i \in DOMAIN ms : ms[i].chat_room = rid /\ ~ms[i].is_read /\ ms[i].sender # u}

MarkAsRead_Restamp(m, t) == [m EXCEPT !.is_read = TRUE, !.read_at = t]

\* ChatMessage.mark_as_read at clock value t
MarkAsRead(m, t) ==
    IF ~m.is_read THEN [m EXCEPT !.is_read = TRUE, !.read_at = t] ELSE m

\* for msg in unread: msg.mark_as_read()
MarkAll(ms, unread, t) ==
    [i \in DOMAIN ms |-> IF i \in unread THEN MarkAsRead(ms[i], t) ELSE ms[i]]

\* the clock after a loop of mark_as_read calls: it is read when a row is stamped
ClockAfter(ms, ms2, t) == IF ms2 # ms THEN t + 1 ELSE t

\* chat_room
ChatRoomView(u, rid) ==
    LET access == RoomAccess(u, rid)
        unread == Unread(msgs, rid, u)
        marked == MarkAll(msgs, unread, now)
    IN  /\ chatResp = NoChatResp
        /\ IF access = "neither"
           THEN /\ chatResp' = ChatLog("chat_room", NULL, 0, "GET", <<>>, 302, "chat_list", 0)
                /\ UNCHANGED <<msgs, now>>
           ELSE IF access = "404"
           THEN /\ chatResp' = ChatLog("chat_room", NULL, rid, "GET", <<>>, 404, NULL, 0)
                /\ UNCHANGED <<msgs, now>>
           ELSE /\ msgs' = marked
                /\ now' = ClockAfter(msgs, marked, now)
                /\ chatResp' = ChatLog("chat_room", u, rid, "GET", <<>>, 200, NULL, 0)
        /\ UNCHANGED <<rooms, pc, req, redirects>>
        /\ UNCHANGED <<botVars, childVars, restVars>>

\* send_message, any method but POST: neither the user nor the room is read
SendMessageNotPost ==
    /\ chatResp = NoChatResp
    /\ chatResp' = ChatLog("send_message", NULL, 0, "GET", <<>>, 400, "Invalid request", 0)
    /\ UNCHANGED <<rooms, msgs, now, pc, req, redirects>>
    /\ UNCHANGED <<botVars, childVars, restVars>>

\* send_message, POST
SendMessage(u, rid, raw) ==
    LET content == Strip(raw)
        access == RoomAccess(u, rid)
    IN  /\ chatResp = NoChatResp
        /\ IF content = <<>>
           THEN /\ chatResp' = ChatLog("send_message", NULL, 0, "POST", raw, 400,
                                       "Message cannot be empty", 0)
                /\ UNCHANGED <<rooms, msgs, now>>
           ELSE IF access = "404"
           THEN /\ chatResp' = ChatLog("send_message", NULL, rid, "POST", raw, 404, NULL, 0)
                /\ UNCHANGED <<rooms, msgs, now>>
           ELSE IF access = "neither"
           THEN /\ chatResp' = ChatLog("send_message", NULL, 0, "POST", raw, 403,
                                       "Unauthorized", 0)
                /\ UNCHANGED <<rooms, msgs, now>>
           ELSE /\ Len(msgs) < MaxMsgs
                /\ msgs' = Append(msgs, [chat_room |-> rid, sender |-> u,
                                         content |-> content, is_read |-> FALSE,
                                         read_at |-> NoTime, created_at |-> now])
                /\ rooms' = [rooms EXCEPT ![rid].last_message_at = now + 1]
                /\ now' = now + 2
                /\ chatResp' = ChatLog("send_message", u, rid, "POST", raw, 200, NULL, 0)
        /\ UNCHANGED <<pc, req, redirects>>
        /\ UNCHANGED <<botVars, childVars, restVars>>

\* mark_messages_read
MarkMessagesRead(u, rid) ==
    LET access == RoomAccess(u, rid)
        unread == Unread(msgs, rid, u)
        marked == MarkAll(msgs, unread, now)
    IN  /\ chatResp = NoChatResp
        /\ IF access = "neither"
           THEN /\ chatResp' = ChatLog("mark_messages_read", NULL, 0, "POST", <<>>, 403,
                                       "Unauthorized", 0)
                /\ UNCHANGED <<msgs, now>>
           ELSE IF access = "404"
           THEN /\ chatResp' = ChatLog("mark_messages_read", NULL, rid, "POST", <<>>, 404,
                                       NULL, 0)
                /\ UNCHANGED <<msgs, now>>
           ELSE /\ msgs' = marked
                /\ now' = ClockAfter(msgs, marked, now)
                /\ chatResp' = ChatLog("mark_messages_read", u, rid, "POST", <<>>, 200,
                                       NULL, Cardinality(unread))
        /\ UNCHANGED <<rooms, pc, req, redirects>>
        /\ UNCHANGED <<botVars, childVars, restVars>>

\* the id of the ChatRoom row of a pair
RoomIdOf(rs, parent, teacher) ==
    CHOOSE i \in DOMAIN rs : rs[i].parent = parent /\ rs[i].teacher = teacher

\* ChatRoom.objects.get(parent=parent, teacher=teacher) finds a row
RoomExists(rs, parent, teacher) ==
    \E i \in DOMAIN rs : rs[i].parent = parent /\ rs[i].teacher = teacher

UniqueTogether_Off(rs, parent, teacher) == FALSE

\* unique_together = ['parent', 'teacher']: the insert of a second row for
\* the pair fails with an IntegrityError
UniqueTogether(rs, parent, teacher) == RoomExists(rs, parent, teacher)

\* start_chat up to the lookup of get_or_create: the decorator, the teacher
\* lookup, and the get that finds the room or does not
StartChatGet(w, u, tid) ==
    /\ pc[w] = "idle"
    /\ IF ~ParentRequired(u)
       THEN /\ chatResp' = ChatLog("start_chat", NULL, 0, "GET", <<>>, 302, "not a parent", 0)
            /\ UNCHANGED <<pc, req, redirects>>
       ELSE IF tid \notin Teachers
       THEN /\ chatResp' = ChatLog("start_chat", NULL, 0, "GET", <<>>, 404, NULL, 0)
            /\ UNCHANGED <<pc, req, redirects>>
       ELSE IF RoomExists(rooms, ParentProfile(u), tid)
       THEN LET rid == RoomIdOf(rooms, ParentProfile(u), tid)
            IN  /\ chatResp' = ChatLog("start_chat", u, rid, "GET", <<>>, 302, "found", 0)
                /\ redirects' = redirects \cup {<<ParentProfile(u), tid, rid>>}
                /\ UNCHANGED <<pc, req>>
       ELSE /\ pc' = [pc EXCEPT ![w] = "create"]
            /\ req' = [req EXCEPT ![w] = [user |-> u, parent |-> ParentProfile(u),
                                          teacher |-> tid]]
            /\ chatResp' = ChatLog("start_chat", u, 0, "GET", <<>>, 0, "creating", 0)
            /\ UNCHANGED redirects
    /\ UNCHANGED <<rooms, msgs, now>>
    /\ UNCHANGED <<botVars, childVars, restVars>>

\* start_chat from the create of get_or_create: the insert, or, when the
\* unique constraint refuses it, the second get; then the redirect
StartChatCreate(w) ==
    /\ pc[w] = "create"
    /\ LET r == req[w]
       IN  IF UniqueTogether(rooms, r.parent, r.teacher)
           THEN LET rid == RoomIdOf(rooms, r.parent, r.teacher)
                IN  /\ chatResp' = ChatLog("start_chat", r.user, rid, "GET", <<>>, 302,
                                           "integrity error", 0)
                    /\ redirects' = redirects \cup {<<r.parent, r.teacher, rid>>}
                    /\ UNCHANGED rooms
           ELSE LET rid == Len(rooms) + 1
                IN  /\ rooms' = Append(rooms, [parent |-> r.parent, teacher |-> r.teacher,
                                               last_message_at |-> NoTime])
                    /\ chatResp' = ChatLog("start_chat", r.user, rid, "GET", <<>>, 302,
                                           "created", 0)
                    /\ redirects' = redirects \cup {<<r.parent, r.teacher, rid>>}
    /\ pc' = [pc EXCEPT ![w] = "idle"]
    /\ req' = [req EXCEPT ![w] = NoReq]
    /\ UNCHANGED <<msgs, now>>
    /\ UNCHANGED <<botVars, childVars, restVars>>

\* ChatMessage.mark_as_read called on row i
MarkAsReadCall(i) ==
    LET m == MarkAsRead(msgs[i], now)
    IN  /\ chatResp = NoChatResp
        /\ msgs' = [msgs EXCEPT ![i] = m]
        /\ now' = ClockAfter(msgs, msgs', now)
        /\ chatResp' = ChatLog("mark_as_read", NULL, i, NULL, <<>>, 0,
                               IF msgs[i].is_read THEN "was read" ELSE "was unread", 0)
        /\ UNCHANGED <<rooms, pc, req, redirects>>
        /\ UNCHANGED <<botVars, childVars, restVars>>

\* start_chat served without another request in between: the decorator,
\* the teacher lookup, get_or_create and the redirect
StartChat(u, tid) ==
    /\ chatResp = NoChatResp
    /\ IF ~ParentRequired(u)
       THEN /\ chatResp' = ChatLog("start_chat", NULL, 0, "GET", <<>>, 302, "not a parent", 0)
            /\ UNCHANGED <<rooms, redirects>>
       ELSE IF tid \notin Teachers
       THEN /\ chatResp' = ChatLog("start_chat", NULL, 0, "GET", <<>>, 404, NULL, 0)
            /\ UNCHANGED <<rooms, redirects>>
       ELSE IF RoomExists(rooms, ParentProfile(u), tid)
       THEN LET rid == RoomIdOf(rooms, ParentProfile(u), tid)
            IN  /\ chatResp' = ChatLog("start_chat", u, rid, "GET", <<>>, 302, "found", 0)
                /\ redirects' = redirects \cup {<<ParentProfile(u), tid, rid>>}
                /\ UNCHANGED rooms
       ELSE LET rid == Len(rooms) + 1
            IN  /\ rooms' = Append(rooms, [parent |-> ParentProfile(u), teacher |-> tid,
                                           last_message_at |-> NoTime])
                /\ chatResp' = ChatLog("start_chat", u, rid, "GET", <<>>, 302, "created", 0)
                /\ redirects' = redirects \cup {<<ParentProfile(u), tid, rid>>}
    /\ UNCHANGED <<msgs, now, pc, req>>
    /\ UNCHANGED <<botVars, childVars, restVars>>

\* the response leaves the server, which is then free for the next request
ChatRespond ==
    /\ chatResp # NoChatResp
    /\ chatResp' = NoChatResp
    /\ UNCHANGED <<rooms, msgs, now, pc, req, redirects>>
    /\ UNCHANGED <<botVars, childVars, restVars>>

\* the chat handlers, each request served in one step
ChatNext ==
    \/ ChatRespond
    \/ \E u \in Users, tid \in TeacherIds : StartChat(u, tid)
    \/ \E u \in Users, rid \in RoomIds : ChatRoomView(u, rid)
    \/ SendMessageNotPost
    \/ \E u \in Users, rid \in RoomIds, raw \in Contents : SendMessage(u, rid, raw)
    \/ \E u \in Users, rid \in RoomIds : MarkMessagesRead(u, rid)

\* start_chat requests served by workers that interleave
StartChatNext ==
    \/ \E w \in Workers, u \in Users, tid \in TeacherIds : StartChatGet(w, u, tid)
    \/ \E w \in Workers : StartChatCreate(w)

(***************************************************************************)
(* The parent's views of a child (users/views.py parent_dashboard,         *)
(* child_detail).                                                          *)
(***************************************************************************)

MaxAttendance == 3      \* Attendance rows in the table

\* Child primary keys
Children == {1, 2}

\* no child: a null child, a request that names none
NoChild == 0

\* the child ids a request may name: every child and an id that is no child's
ChildIds == Children \cup {9}

Statuses == {"present", "absent", "late"}

\* dates as [y, m, d]; date.today() and the dates attendance was taken on:
\* the same month a year before, the month before within 30 days, and two
\* days of the current month
Today == [y |-> 2025, m |-> 3, d |-> 10]

Dates ==
    { [y |-> 2024, m |-> 3, d |-> 5],
      [y |-> 2025, m |-> 2, d |-> 20],
      [y |-> 2025, m |-> 3, d |-> 3],
      [y |-> 2025, m |-> 3, d |-> 10] }

IsLeap(y) == (y % 4 = 0 /\ y % 100 # 0) \/ y % 400 = 0

DaysBeforeMonth(y, m) ==
    LET cum == <<0, 31, 59, 90, 120, 151, 181, 212, 243, 273, 304, 334>>
    IN  cum[m] + (IF m > 2 /\ IsLeap(y) THEN 1 ELSE 0)

\* date.toordinal: what date comparison and date - timedelta compute with
Ordinal(dt) ==
    LET y1 == dt.y - 1
    IN  y1 * 365 + (y1 \div 4) - (y1 \div 100) + (y1 \div 400)
        + DaysBeforeMonth(dt.y, dt.m) + dt.d

\* timedelta(days=30) of child_detail, and the [:30] of its attendance list
WindowDays == 30
RecentLimit == 30

\* the FinalGrade and Enrollment rows (monitoring models), fixed
FinalGrades ==
    { [student |-> 1, class_obj |-> "K1", quarter |-> 1],
      [student |-> 1, class_obj |-> "K1", quarter |-> 2],
      [student |-> 2, class_obj |-> "K2", quarter |-> 1] }

Enrollments ==
    { [student |-> 1, class_obj |-> "K1"],
      [student |-> 2, class_obj |-> "K2"] }

\* what Python raises for x / 0
ZeroDivisionError == -1

\* present_days / total_days * 100 rounded to one decimal by round(x, 1),
\* in tenths of a percent (33.3 is 333): round-half-even
PercentRounded(present, total) ==
    IF total = 0 THEN ZeroDivisionError
    ELSE LET n == present * 1000
             q == n \div total
             r == n % total
         IN  IF 2 * r < total THEN q
             ELSE IF 2 * r > total THEN q + 1
             ELSE IF q % 2 = 0 THEN q ELSE q + 1

AttendanceRate_NoGuard(present, total) == PercentRounded(present, total)

\* round((present_days / total_days * 100) if total_days > 0 else 0, 1)
AttendanceRate(present, total) ==
    IF total > 0 THEN PercentRounded(present, total) ELSE 0

\* Attendance.objects.filter(child=child)
AttendanceOf(child) == {a \in attendance : a.child = child}

\* filter(child=child, date__month=today.month, date__year=today.year)
CurrentMonthAttendance(child) ==
    {a \in AttendanceOf(child) : a.date.m = Today.m /\ a.date.y = Today.y}

\* filter(child=child, date__gte=date.today() - timedelta(days=30))
RecentAttendance(child) ==
    {a \in AttendanceOf(child) : Ordinal(a.date) >= Ordinal(Today) - WindowDays}

\* .order_by('-date')[:n]: the n latest rows, latest first (one row per date)
RECURSIVE LatestFirst(_, _)
LatestFirst(rows, n) ==
    IF rows = {} \/ n = 0 THEN <<>>
    ELSE LET top == CHOOSE a \in rows :
                        \A b \in rows : Ordinal(a.date) >= Ordinal(b.date)
         IN  <<top>> \o LatestFirst(rows \ {top}, n - 1)

CountStatus(rows, st) == Cardinality({a \in rows : a.status = st})

\* attendance_stats of parent_dashboard, attendance_summary of child_detail
MonthStats(child) ==
    LET rows == CurrentMonthAttendance(child)
        total == Cardinality(rows)
        present == CountStatus(rows, "present")
    IN  [total_days |-> total, present_days |-> present,
         attendance_rate |-> AttendanceRate(present, total)]

Summary(child) ==
    LET rows == RecentAttendance(child)
        total == Cardinality(rows)
        present == CountStatus(rows, "present")
    IN  [total_days |-> total, present_days |-> present,
         absent_days |-> CountStatus(rows, "absent"),
         late_days |-> CountStatus(rows, "late"),
         attendance_rate |-> AttendanceRate(present, total)]

ChildOfParent_AnyChild(cid, parent) == cid \in Children

\* Child.objects.get(id=child_id, parents=parent) finds a row
ChildOfParent(cid, parent) == cid \in DOMAIN guardians /\ parent \in guardians[cid]

NoChildResp ==
    [view |-> NULL, parent |-> NULL, child_id |-> NoChild, status |-> 0,
     note |-> NULL, child |-> NoChild, classes |-> {}, grades |-> {},
     attendance |-> <<>>, stats |-> <<>>]

\* a parent-view request and its response, as the log keeps it; a response
\* that renders no child page carries no child, classes, grades or attendance
ChildLog(view, parent, cid, status, note) ==
    [NoChildResp EXCEPT !.view = view, !.parent = parent, !.child_id = cid,
                        !.status = status, !.note = note]

\* the tables hold any guardians and any Attendance rows, one per (child, date)
ChildInit ==
    /\ guardians \in [Children -> SUBSET Parents]
    /\ \E keys \in SUBSET (Children \X Dates) :
          /\ Cardinality(keys) <= MaxAttendance
          /\ \E st \in [keys -> Statuses] :
                attendance = {[child |-> k[1], date |-> k[2], status |-> st[k]] : k \in keys}
    /\ childResp = NoChildResp

ChildIdle == guardians = <<>> /\ attendance = {} /\ childResp = NoChildResp

\* a handler that divides by zero ends in a server error
StatusOf(rates) == IF ZeroDivisionError \in rates THEN 500 ELSE 200

\* child_detail
ChildDetail(u, cid) ==
    /\ childResp = NoChildResp
    /\ IF ~ParentRequired(u)
       THEN childResp' = ChildLog("child_detail", NULL, cid, 302, "wrong role")
       ELSE IF ~ChildOfParent(cid, ParentProfile(u))
       THEN childResp' = ChildLog("child_detail", ParentProfile(u), cid, 302,
                                  "Child not found or you do not have access.")
       ELSE LET summary == Summary(cid)
                status == StatusOf({summary.attendance_rate})
                page == ChildLog("child_detail", ParentProfile(u), cid, status, "rendered")
            IN  IF status = 500
                THEN childResp' = [page EXCEPT !.note = "ZeroDivisionError"]
                ELSE childResp' =
                        [page EXCEPT
                            !.child = cid,
                            !.classes = {e.class_obj : e \in {x \in Enrollments : x.student = cid}},
                            !.grades = {g \in FinalGrades : g.student = cid},
                            !.attendance = LatestFirst(AttendanceOf(cid), RecentLimit),
                            !.stats = <<[child |-> cid] @@ summary>>]
    /\ UNCHANGED <<guardians, attendance>>
    /\ UNCHANGED <<botVars, chatVars, restVars>>

\* parent.children.all(), in a fixed order
RECURSIVE ChildrenOf(_, _)
ChildrenOf(parent, cs) ==
    IF cs = {} THEN <<>>
    ELSE LET c == CHOOSE x \in cs : \A z \in cs : x = z \/ x < z
         IN  (IF parent \in guardians[c] THEN <<c>> ELSE <<>>) \o ChildrenOf(parent, cs \ {c})

\* parent_dashboard: the attendance statistics of every child of the parent
ParentDashboard(u) ==
    /\ childResp = NoChildResp
    /\ IF ~ParentRequired(u)
       THEN childResp' = ChildLog("parent_dashboard", NULL, NoChild, 302, "wrong role")
       ELSE LET children == ChildrenOf(ParentProfile(u), Children)
                data == [i \in 1..Len(children) |->
                            [child |-> children[i]] @@ MonthStats(children[i])]
                status == StatusOf({data[i].attendance_rate : i \in 1..Len(data)})
                page == ChildLog("parent_dashboard", ParentProfile(u), NoChild, status, "rendered")
            IN  IF status = 500
                THEN childResp' = [page EXCEPT !.note = "ZeroDivisionError"]
                ELSE childResp' = [page EXCEPT !.stats = data]
    /\ UNCHANGED <<guardians, attendance>>
    /\ UNCHANGED <<botVars, chatVars, restVars>>

\* the response leaves the server
ChildRespond ==
    /\ childResp # NoChildResp
    /\ childResp' = NoChildResp
    /\ UNCHANGED <<guardians, attendance>>
    /\ UNCHANGED <<botVars, chatVars, restVars>>

ChildNext ==
    \/ ChildRespond
    \/ \E u \in Users, cid \in ChildIds : ChildDetail(u, cid)
    \/ \E u \in Users : ParentDashboard(u)

\* one parent and one teacher chatting in their room, with direct calls of
\* ChatMessage.mark_as_read on the messages of that room
MarkAsReadNext ==
    \/ ChatRespond
    \/ StartChat("ann", "T1")
    \/ \E u \in {"ann", "tess"} : SendMessage(u, 1, <<" ", "h", "i", " ">>)
    \/ \E u \in {"ann", "tess"} : MarkMessagesRead(u, 1)
    \/ \E u \in {"ann", "tess"} : ChatRoomView(u, 1)
    \/ \E i \in DOMAIN msgs : MarkAsReadCall(i)

(***************************************************************************)
(* The teacher's class and grade views (monitoring/views.py, and           *)
(* class_detail of users/views.py).                                        *)
(***************************************************************************)

\* Class and FinalGrade primary keys, and the ids a request may name: every
\* row's and one that is no row's
ClassRows == {1, 2}
ClassIds == ClassRows \cup {9}
GradeRows == {1, 2}
GradeIds == GradeRows \cup {9}

\* no class: a response that renders none
NoClass == 0

Methods == {"GET", "POST"}

\* the Enrollment rows of the classes, fixed
ClassEnrollments ==
    { [student |-> 1, class_obj |-> 1],
      [student |-> 2, class_obj |-> 1],
      [student |-> 2, class_obj |-> 2] }

\* the GradeItem rows a final grade is computed from, fixed
GradeItems ==
    { [student |-> 1, class_obj |-> 1, quarter |-> 1, score |-> 80],
      [student |-> 1, class_obj |-> 1, quarter |-> 1, score |-> 90],
      [student |-> 2, class_obj |-> 2, quarter |-> 1, score |-> 70] }

\* the values a stored final grade may have before it is recomputed
StoredGrades == {0, 85}

RECURSIVE SumScores(_)
SumScores(items) ==
    IF items = {} THEN 0
    ELSE LET i == CHOOSE x \in items : TRUE
         IN  i.score + SumScores(items \ {i})

\* FinalGrade.compute_final_grade: the mean of the contributing grade items
\* of the (student, class, quarter) scope, stored over the prior value
ComputeFinalGrade(g) ==
    LET items == {i \in GradeItems : /\ i.student = g.student
                                     /\ i.class_obj = g.class_obj
                                     /\ i.quarter = g.quarter}
    IN  [g EXCEPT !.final_grade =
            IF items = {} THEN 0 ELSE SumScores(items) \div Cardinality(items)]

\* @teacher_required: only a teacher reaches the view
TeacherRequired(u) == IsTeacher(u)

IsPost_Always(method) == TRUE

\* request.method == 'POST'
IsPost(method) == method = "POST"

NoClassResp ==
    [view |-> NULL, teacher |-> NULL, target |-> 0, method |-> NULL,
     status |-> 0, note |-> NULL, class_obj |-> NoClass,
     enrollments |-> {}, grades |-> {}]

\* a teacher-view request and its response, as the log keeps it; a response
\* that renders no class carries no class, enrollment or grade
ClassLog(view, teacher, target, method, status, note) ==
    [NoClassResp EXCEPT !.view = view, !.teacher = teacher, !.target = target,
                        !.method = method, !.status = status, !.note = note]

\* the Class table holds any owner for each class; each FinalGrade row holds
\* a stored value
ClassInit ==
    /\ classes \in [ClassRows -> Teachers]
    /\ \E v \in [GradeRows -> StoredGrades] :
          finalGrades = [g \in GradeRows |->
                            [student |-> g, class_obj |-> g, quarter |-> 1,
                             final_grade |-> v[g]]]
    /\ classResp = NoClassResp

ClassIdle == classes = <<>> /\ finalGrades = <<>> /\ classResp = NoClassResp

ClassOfTeacher_AnyTeacher(cid, teacher) == cid \in DOMAIN classes

\* get_object_or_404(Class, id=class_id, teacher=teacher) finds a row
ClassOfTeacher(cid, teacher) == cid \in DOMAIN classes /\ classes[cid] = teacher

\* get_object_or_404(FinalGrade, id=grade_id, class_obj__teacher=teacher)
\* finds a row
GradeOfTeacher(gid, teacher) ==
    /\ gid \in DOMAIN finalGrades
    /\ ClassOfTeacher(finalGrades[gid].class_obj, teacher)

\* Enrollment.objects.filter(class_obj=class_obj)
EnrollmentsOf(cid) == {e \in ClassEnrollments : e.class_obj = cid}

\* FinalGrade.objects.filter(class_obj=class_obj), with their ids
GradesOf(cid) ==
    {[id |-> g] @@ finalGrades[g] : g \in {x \in DOMAIN finalGrades :
                                              finalGrades[x].class_obj = cid}}

\* the head shared by the class-scoped views of monitoring/views.py: the
\* decorator, then the class lookup that ends in Http404; a view that gets
\* past both answers with `page`
ClassScoped(view, u, cid, method, page) ==
    /\ classResp = NoClassResp
    /\ classResp' =
          IF ~TeacherRequired(u)
          THEN ClassLog(view, NULL, cid, method, 302, "wrong role")
          ELSE IF ~ClassOfTeacher(cid, TeacherProfile(u))
          THEN ClassLog(view, TeacherProfile(u), cid, method, 404, "Http404")
          ELSE page
    /\ UNCHANGED <<classes, finalGrades>>
    /\ UNCHANGED notClassVars

\* the page of a view that found its class
ClassPage(view, u, cid, method, status, note) ==
    [ClassLog(view, TeacherProfile(u), cid, method, status, note)
        EXCEPT !.class_obj = cid]

\* class_detail (monitoring)
ClassDetail(u, cid) ==
    ClassScoped("class_detail", u, cid, "GET",
                ClassPage("class_detail", u, cid, "GET", 200, "rendered"))

\* class_students
ClassStudents(u, cid) ==
    ClassScoped("class_students", u, cid, "GET",
                [ClassPage("class_students", u, cid, "GET", 200, "rendered")
                    EXCEPT !.enrollments = EnrollmentsOf(cid)])

\* class_grades
ClassGrades(u, cid) ==
    ClassScoped("class_grades", u, cid, "GET",
                [ClassPage("class_grades", u, cid, "GET", 200, "rendered")
                    EXCEPT !.grades = GradesOf(cid)])

\* upload_grades: the POST branch processes no file and redirects
UploadGrades(u, cid, method) ==
    ClassScoped("upload_grades", u, cid, method,
                IF IsPost(method)
                THEN ClassPage("upload_grades", u, cid, method, 302,
                               "Grades uploaded successfully!")
                ELSE ClassPage("upload_grades", u, cid, method, 200, "rendered"))

\* download_grade_template
DownloadGradeTemplate(u, cid) ==
    ClassScoped("download_grade_template", u, cid, "GET",
                ClassPage("download_grade_template", u, cid, "GET", 200, "placeholder"))

\* class_report
ClassReport(u, cid) ==
    ClassScoped("class_report", u, cid, "GET",
                ClassPage("class_report", u, cid, "GET", 200, "rendered"))

\* edit_grade
EditGrade(u, gid, method) ==
    /\ classResp = NoClassResp
    /\ IF ~TeacherRequired(u)
       THEN /\ classResp' = ClassLog("edit_grade", NULL, gid, method, 302, "wrong role")
            /\ UNCHANGED finalGrades
       ELSE IF ~GradeOfTeacher(gid, TeacherProfile(u))
       THEN /\ classResp' = ClassLog("edit_grade", TeacherProfile(u), gid, method,
                                     404, "Http404")
            /\ UNCHANGED finalGrades
       ELSE LET grade == finalGrades[gid]
                page == [ClassLog("edit_grade", TeacherProfile(u), gid, method, 200, "rendered")
                            EXCEPT !.class_obj = grade.class_obj]
            IN  IF IsPost(method)
                THEN /\ finalGrades' = [finalGrades EXCEPT ![gid] = ComputeFinalGrade(grade)]
                     /\ classResp' = [page EXCEPT !.status = 302,
                                                  !.note = "Grade updated successfully!"]
                ELSE /\ classResp' = [page EXCEPT !.grades = {[id |-> gid] @@ grade}]
                     /\ UNCHANGED finalGrades
    /\ UNCHANGED classes
    /\ UNCHANGED notClassVars

\* class_detail of users/views.py: a missing class ends in a redirect to
\* the teacher's classes with an error message
TeacherClassDetail(u, cid) ==
    /\ classResp = NoClassResp
    /\ classResp' =
          IF ~TeacherRequired(u)
          THEN ClassLog("users.class_detail", NULL, cid, "GET", 302, "wrong role")
          ELSE IF ~ClassOfTeacher(cid, TeacherProfile(u))
          THEN ClassLog("users.class_detail", TeacherProfile(u), cid, "GET", 302,
                        "Class not found or you do not have access.")
          ELSE [ClassPage("users.class_detail", u, cid, "GET", 200, "rendered")
                    EXCEPT !.enrollments = EnrollmentsOf(cid)]
    /\ UNCHANGED <<classes, finalGrades>>
    /\ UNCHANGED notClassVars

\* the response leaves the server
ClassRespond ==
    /\ classResp # NoClassResp
    /\ classResp' = NoClassResp
    /\ UNCHANGED <<classes, finalGrades>>
    /\ UNCHANGED notClassVars

ClassNext ==
    \/ ClassRespond
    \/ \E u \in Users, cid \in ClassIds : ClassDetail(u, cid)
    \/ \E u \in Users, cid \in ClassIds : ClassStudents(u, cid)
    \/ \E u \in Users, cid \in ClassIds : ClassGrades(u, cid)
    \/ \E u \in Users, cid \in ClassIds, method \in Methods : UploadGrades(u, cid, method)
    \/ \E u \in Users, cid \in ClassIds : DownloadGradeTemplate(u, cid)
    \/ \E u \in Users, cid \in ClassIds : ClassReport(u, cid)
    \/ \E u \in Users, gid \in GradeIds, method \in Methods : EditGrade(u, gid, method)
    \/ \E u \in Users, cid \in ClassIds : TeacherClassDetail(u, cid)

(***************************************************************************)
(* Announcements (information/views.py announcement_list,                  *)
(* announcement_detail; the announcements of parent_dashboard), with the   *)
(* steps of announcement_detail taken by workers that may interleave.      *)
(***************************************************************************)

MaxRequests == 4        \* counting requests started in a run

\* Announcement primary keys, and the ids a request may name
AnnRows == {1, 2}
AnnIds == AnnRows \cup {9}

\* the users who ask for announcements: a parent, a teacher, an admin
AnnUsers == {"ann", "tess", "root"}

\* no AnnouncementRead rows
NoReads == [k \in AnnRows \X AnnUsers |-> 0]

\* values of target_audience: all, parents, teachers, or a specific grade
Audiences == {"all", "parents", "teachers", "grade 1"}

\* the [:5] of the dashboard's announcements
DashboardLimit == 5

NoAnn == [id |-> 0, is_published |-> FALSE, target_audience |-> NULL, views_count |-> 0]

NoAnnResp == [view |-> NULL, user |-> NULL, status |-> 0, announcements |-> <<>>]

\* the BotMessage rows of the runs with interleaved requests
RaceBotIds == {1, 2}

\* a worker's locals: the Announcement object read, or the BotMessage row
\* matched, as the request holds it in memory
NoLoc == [view |-> NULL, user |-> NULL, obj |-> NoAnn, row |-> 0, query |-> <<>>]

NoIncs == [ann |-> [a \in AnnRows |-> 0], bot |-> [b \in RaceBotIds |-> 0]]

\* the Announcement table holds any rows, not yet viewed; no
\* AnnouncementRead rows; the workers idle
AnnInit ==
    /\ anns \in [AnnRows -> [is_published : BOOLEAN, target_audience : Audiences,
                             views_count : {0}]]
    /\ annReads = NoReads
    /\ annResp = NoAnnResp
    /\ apc = [w \in Workers |-> "idle"]
    /\ aloc = [w \in Workers |-> NoLoc]
    /\ started = 0
    /\ annDone = {}
    /\ incs = NoIncs
    /\ raced = FALSE

AnnIdle ==
    /\ anns = <<>>
    /\ annReads = NoReads
    /\ annResp = NoAnnResp
    /\ apc = [w \in Workers |-> "idle"]
    /\ aloc = [w \in Workers |-> NoLoc]
    /\ started = 0
    /\ annDone = {}
    /\ incs = NoIncs
    /\ raced = FALSE

\* a row as a view holds it: the record with its id
AnnObj(a) == [id |-> a] @@ anns[a]

\* the rows of `ids` latest first (created_at grows with the id), at most n
RECURSIVE LatestAnns(_, _)
LatestAnns(ids, n) ==
    IF ids = {} \/ n = 0 THEN <<>>
    ELSE LET top == CHOOSE a \in ids : \A b \in ids : a >= b
         IN  <<AnnObj(top)>> \o LatestAnns(ids \ {top}, n - 1)

\* Announcement.objects.filter(is_published=True)
Published == {a \in DOMAIN anns : anns[a].is_published}

\* .filter(target_audience__in=[...])
ForAudience(ids, audiences) == {a \in ids : anns[a].target_audience \in audiences}

\* announcement_list
AnnouncementList(u) ==
    /\ annResp' =
          [view |-> "announcement_list", user |-> u, status |-> 200,
           announcements |->
              LatestAnns(IF IsParent(u) THEN ForAudience(Published, {"all", "parents"})
                         ELSE IF IsTeacher(u) THEN ForAudience(Published, {"all", "teachers"})
                         ELSE Published,
                         Cardinality(DOMAIN anns))]
    /\ UNCHANGED <<anns, annReads, apc, aloc, started, annDone, incs, raced>>
    /\ UNCHANGED notAnnVars

\* the announcements of parent_dashboard
DashboardAnnouncements(u) ==
    /\ annResp' =
          IF ~ParentRequired(u)
          THEN [view |-> "parent_dashboard", user |-> u, status |-> 302,
                announcements |-> <<>>]
          ELSE [view |-> "parent_dashboard", user |-> u, status |-> 200,
                announcements |->
                   LatestAnns(ForAudience(Published, {"all", "parents"}), DashboardLimit)]
    /\ UNCHANGED <<anns, annReads, apc, aloc, started, annDone, incs, raced>>
    /\ UNCHANGED notAnnVars

\* another request stands between its read and its save
Overlaps(w) == \E v \in Workers \ {w} : apc[v] # "idle"

\* announcement_detail, line 122: get_object_or_404(Announcement,
\* id=announcement_id, is_published=True); the row is read into memory
AnnGet(w, u, aid) ==
    /\ apc[w] = "idle"
    /\ IF aid \in DOMAIN anns /\ anns[aid].is_published
       THEN /\ started < MaxRequests
            /\ apc' = [apc EXCEPT ![w] = "got"]
            /\ aloc' = [aloc EXCEPT ![w] = [NoLoc EXCEPT !.view = "announcement_detail",
                                                         !.user = u,
                                                         !.obj = AnnObj(aid)]]
            /\ started' = started + 1
            /\ raced' = (raced \/ Overlaps(w))
            /\ UNCHANGED annResp
       ELSE /\ annResp' = [view |-> "announcement_detail", user |-> u, status |-> 404,
                           announcements |-> <<>>]
            /\ UNCHANGED <<apc, aloc, started, raced>>
    /\ UNCHANGED <<anns, annReads, annDone, incs>>
    /\ UNCHANGED notAnnVars

\* AnnouncementRead.objects.get(announcement=..., user=...) finds a row
AnnReadExists(rs, aid, u) == rs[<<aid, u>>] > 0

AnnReadUnique_Off(rs, aid, u) == FALSE

\* unique_together = ['announcement', 'user']: the insert of a second row
\* for the pair fails with an IntegrityError
AnnReadUnique(rs, aid, u) == AnnReadExists(rs, aid, u)

\* the get of get_or_create, lines 126-129
AnnReadGet(w) ==
    /\ apc[w] = "got"
    /\ apc' = [apc EXCEPT ![w] =
                  IF AnnReadExists(annReads, aloc[w].obj.id, aloc[w].user)
                  THEN "marked" ELSE "create"]
    /\ UNCHANGED <<anns, annReads, annResp, aloc, started, annDone, incs, raced>>
    /\ UNCHANGED notAnnVars

\* the create of get_or_create: the insert, or, when the unique constraint
\* refuses it, the second get
AnnReadCreate(w) ==
    /\ apc[w] = "create"
    /\ annReads' =
          IF AnnReadUnique(annReads, aloc[w].obj.id, aloc[w].user)
          THEN annReads
          ELSE [annReads EXCEPT ![<<aloc[w].obj.id, aloc[w].user>>] = @ + 1]
    /\ apc' = [apc EXCEPT ![w] = "marked"]
    /\ UNCHANGED <<anns, annResp, aloc, started, annDone, incs, raced>>
    /\ UNCHANGED notAnnVars

ViewsAfter_Reset(obj) == 1

\* announcement.views_count += 1, on the object in memory
ViewsAfter(obj) == obj.views_count + 1

\* lines 132-138: the increment in memory, announcement.save() writing the
\* object's fields over the row, and the page
AnnSave(w) ==
    LET obj == [aloc[w].obj EXCEPT !.views_count = ViewsAfter(aloc[w].obj)]
    IN  /\ apc[w] = "marked"
        /\ anns' = [anns EXCEPT ![obj.id] =
                       [is_published |-> obj.is_published,
                        target_audience |-> obj.target_audience,
                        views_count |-> obj.views_count]]
        /\ annResp' = [view |-> "announcement_detail", user |-> aloc[w].user,
                       status |-> 200, announcements |-> <<obj>>]
        /\ apc' = [apc EXCEPT ![w] = "idle"]
        /\ aloc' = [aloc EXCEPT ![w] = NoLoc]
        /\ annDone' = annDone \cup {<<obj.id, aloc[w].user>>}
        /\ incs' = [incs EXCEPT !.ann[obj.id] = @ + 1]
        /\ UNCHANGED <<annReads, started, raced>>
        /\ UNCHANGED notAnnVars

\* announcements, requests served one at a time by one worker
AnnNext ==
    \/ \E u \in AnnUsers : AnnouncementList(u)
    \/ \E u \in AnnUsers : DashboardAnnouncements(u)
    \/ \E u \in AnnUsers, aid \in AnnIds : AnnGet("w1", u, aid)
    \/ AnnReadGet("w1")
    \/ AnnReadCreate("w1")
    \/ AnnSave("w1")

(***************************************************************************)
(* Requests that interleave: announcement_detail and chatbot_query served  *)
(* by two workers, a step of one between the read and the save of the      *)
(* other.                                                                  *)
(***************************************************************************)

\* the queries of these runs: "A", "b " and "c"
RaceQueries == { <<"A">>, <<"b", " ">>, <<"c">> }

\* one published and one unpublished announcement; two active BotMessage
\* rows with the keywords "a" and "B, ab"
RaceInit ==
    /\ AnnInit
    /\ anns[1].is_published /\ anns[1].target_audience = "all"
    /\ ~anns[2].is_published /\ anns[2].target_audience = "all"
    /\ bots = [i \in RaceBotIds |->
                 [keywords |-> KeywordFields[i],
                  response_text |-> ResponseTextOf(i),
                  priority |-> 2 - i,
                  usage_count |-> 0,
                  is_active |-> TRUE]]
    /\ botResp = NoBotResp

\* chatbot_query, POST, up to the match: the query is normalised, the
\* queryset is evaluated (the rows are read into memory) and the loop finds
\* the first matching row or none
BotFetch(w, raw) ==
    LET query == NormalizeQuery(raw)
    IN  /\ apc[w] = "idle"
        /\ IF query = <<>>
           THEN /\ botResp' = [method |-> "POST", query |-> query,
                               status |-> 400, body |-> "Query cannot be empty"]
                /\ UNCHANGED <<apc, aloc, started, raced>>
           ELSE \E seq \in BotQuerysets(bots) :
                   LET r == BotLoop(bots, seq, query, NULL)
                   IN  IF r.response = NULL
                       THEN /\ botResp' = [method |-> "POST", query |-> query,
                                           status |-> 200, body |-> Fallback]
                            /\ UNCHANGED <<apc, aloc, started, raced>>
                       ELSE LET b == CHOOSE i \in DOMAIN bots : r.bots[i] # bots[i]
                            IN  /\ started < MaxRequests
                                /\ apc' = [apc EXCEPT ![w] = "matched"]
                                /\ aloc' = [aloc EXCEPT ![w] =
                                              [NoLoc EXCEPT !.view = "chatbot_query",
                                                            !.row = b,
                                                            !.obj = r.bots[b],
                                                            !.query = query]]
                                /\ started' = started + 1
                                /\ raced' = (raced \/ Overlaps(w))
                                /\ UNCHANGED botResp
        /\ UNCHANGED bots
        /\ UNCHANGED <<anns, annReads, annResp, annDone, incs>>
        /\ UNCHANGED notAnnBotVars

\* bot_msg.save() of the row incremented in memory, and the response
BotSave(w) ==
    /\ apc[w] = "matched"
    /\ bots' = [bots EXCEPT ![aloc[w].row] = aloc[w].obj]
    /\ botResp' = [method |-> "POST", query |-> aloc[w].query,
                   status |-> 200, body |-> aloc[w].obj.response_text]
    /\ apc' = [apc EXCEPT ![w] = "idle"]
    /\ aloc' = [aloc EXCEPT ![w] = NoLoc]
    /\ incs' = [incs EXCEPT !.bot[aloc[w].row] = @ + 1]
    /\ UNCHANGED <<anns, annReads, annResp, started, annDone, raced>>
    /\ UNCHANGED notAnnBotVars

RaceNext ==
    \/ \E w \in Workers, u \in {"ann", "tess"}, aid \in AnnIds : AnnGet(w, u, aid)
    \/ \E w \in Workers : AnnReadGet(w)
    \/ \E w \in Workers : AnnReadCreate(w)
    \/ \E w \in Workers : AnnSave(w)
    \/ \E w \in Workers, raw \in RaceQueries : BotFetch(w, raw)
    \/ \E w \in Workers : BotSave(w)

(***************************************************************************)
(* send_message taken in steps by workers that may interleave             *)
(* (information/views.py lines 268-307).                                   *)
(***************************************************************************)

NoRoom == [parent |-> NULL, teacher |-> NULL, last_message_at |-> NoTime]

NoSend == [user |-> NULL, room_id |-> 0, room |-> NoRoom, content |-> <<>>, message_id |-> 0]

SendIdle ==
    /\ spc = [w \in Workers |-> "idle"]
    /\ sloc = [w \in Workers |-> NoSend]

\* lines 271-285: the content check and the room lookup; the ChatRoom row
\* is read into memory
SendLookup(w, u, rid, raw) ==
    LET content == Strip(raw)
        access == RoomAccess(u, rid)
    IN  /\ spc[w] = "idle"
        /\ IF content = <<>>
           THEN /\ chatResp' = ChatLog("send_message", NULL, 0, "POST", raw, 400,
                                       "Message cannot be empty", 0)
                /\ UNCHANGED <<spc, sloc>>
           ELSE IF access = "404"
           THEN /\ chatResp' = ChatLog("send_message", NULL, rid, "POST", raw, 404, NULL, 0)
                /\ UNCHANGED <<spc, sloc>>
           ELSE IF access = "neither"
           THEN /\ chatResp' = ChatLog("send_message", NULL, 0, "POST", raw, 403,
                                       "Unauthorized", 0)
                /\ UNCHANGED <<spc, sloc>>
           ELSE /\ spc' = [spc EXCEPT ![w] = "create"]
                /\ sloc' = [sloc EXCEPT ![w] = [NoSend EXCEPT !.user = u, !.room_id = rid,
                                                              !.room = rooms[rid],
                                                              !.content = content]]
                /\ UNCHANGED chatResp
        /\ UNCHANGED <<rooms, msgs, now, pc, req, redirects>>
        /\ UNCHANGED <<botVars, childVars, classVars, annVars, notifVars, moreVars>>

\* lines 288-293: ChatMessage.objects.create, created_at set from the clock
SendCreate(w) ==
    /\ spc[w] = "create"
    /\ Len(msgs) < MaxMsgs
    /\ msgs' = Append(msgs, [chat_room |-> sloc[w].room_id, sender |-> sloc[w].user,
                             content |-> sloc[w].content, is_read |-> FALSE,
                             read_at |-> NoTime, created_at |-> now])
    /\ now' = now + 1
    /\ spc' = [spc EXCEPT ![w] = "stamp"]
    /\ sloc' = [sloc EXCEPT ![w].message_id = Len(msgs) + 1]
    /\ UNCHANGED <<rooms, pc, req, redirects, chatResp>>
    /\ UNCHANGED <<botVars, childVars, classVars, annVars, notifVars, moreVars>>

\* line 297: room.last_message_at = timezone.now(), on the object in memory
SendStamp(w) ==
    /\ spc[w] = "stamp"
    /\ sloc' = [sloc EXCEPT ![w].room.last_message_at = now]
    /\ now' = now + 1
    /\ spc' = [spc EXCEPT ![w] = "save"]
    /\ UNCHANGED <<rooms, msgs, pc, req, redirects, chatResp>>
    /\ UNCHANGED <<botVars, childVars, classVars, annVars, notifVars, moreVars>>

\* lines 298-305: room.save() writing the object's fields over the row, and
\* the JsonResponse
SendSaveRoom(w) ==
    /\ spc[w] = "save"
    /\ rooms' = [rooms EXCEPT ![sloc[w].room_id] = sloc[w].room]
    /\ chatResp' = ChatLog("send_message", sloc[w].user, sloc[w].room_id, "POST",
                           sloc[w].content, 200, NULL, 0)
    /\ spc' = [spc EXCEPT ![w] = "idle"]
    /\ sloc' = [sloc EXCEPT ![w] = NoSend]
    /\ UNCHANGED <<msgs, now, pc, req, redirects>>
    /\ UNCHANGED <<botVars, childVars, classVars, annVars, notifVars, moreVars>>

\* one parent and one teacher sending in their room, their requests
\* interleaved
SendNext ==
    \/ ChatRespond
    \/ StartChat("ann", "T1")
    \/ \E w \in Workers, u \in {"ann", "tess", "ben"}, raw \in {<<>>, <<" ", "h", "i", " ">>} :
          SendLookup(w, u, 1, raw)
    \/ \E w \in Workers : SendCreate(w)
    \/ \E w \in Workers : SendStamp(w)
    \/ \E w \in Workers : SendSaveRoom(w)

(***************************************************************************)
(* Notifications (information/views.py notification_list,                  *)
(* mark_notification_read, mark_all_notifications_read).                   *)
(***************************************************************************)

\* Notification primary keys, and the ids a request may name
NotifRows == {1, 2, 3}
NotifIds == NotifRows \cup {9}

\* the users who have notifications or ask for them
NotifUsers == {"ann", "tess", "root"}

NoNotifResp ==
    [view |-> NULL, user |-> NULL, target |-> 0, status |-> 0, note |-> NULL,
     notifications |-> {}]

\* the Notification table holds rows of any recipients, unread
NotifInit ==
    /\ \E rc \in [NotifRows -> {"ann", "tess"}] :
          notifs = [n \in NotifRows |->
                       [recipient |-> rc[n], is_read |-> FALSE, read_at |-> NoTime]]
    /\ notifResp = NoNotifResp

NotifIdle == notifs = <<>> /\ notifResp = NoNotifResp

\* Notification.objects.filter(recipient=request.user)
NotifsOf(u) == {n \in DOMAIN notifs : notifs[n].recipient = u}

\* notification_list
NotificationList(u) ==
    /\ notifResp = NoNotifResp
    /\ notifResp' = [NoNotifResp EXCEPT !.view = "notification_list", !.user = u,
                                        !.status = 200,
                                        !.notifications = {[id |-> n] @@ notifs[n] : n \in NotifsOf(u)}]
    /\ UNCHANGED notifs
    /\ UNCHANGED now
    /\ UNCHANGED <<rooms, msgs, pc, req, redirects, chatResp>>
    /\ UNCHANGED <<botVars, childVars, classVars, annVars, sendVars, moreVars>>

NotifOfUser_AnyUser(nid, u) == nid \in DOMAIN notifs

\* get_object_or_404(Notification, id=notification_id, recipient=request.user)
\* finds a row
NotifOfUser(nid, u) == nid \in DOMAIN notifs /\ notifs[nid].recipient = u

\* Notification.mark_as_read at clock value t
NotifMarkAsRead(n, t) ==
    IF ~n.is_read THEN [n EXCEPT !.is_read = TRUE, !.read_at = t] ELSE n

\* mark_notification_read; ajax is request.is_ajax()
MarkNotificationRead(u, nid, ajax) ==
    /\ notifResp = NoNotifResp
    /\ IF ~NotifOfUser(nid, u)
       THEN /\ notifResp' = [NoNotifResp EXCEPT !.view = "mark_notification_read",
                                                !.target = nid, !.status = 404,
                                                !.note = "Http404"]
            /\ UNCHANGED <<notifs, now>>
       ELSE /\ notifs' = [notifs EXCEPT ![nid] = NotifMarkAsRead(notifs[nid], now)]
            /\ now' = IF notifs[nid].is_read THEN now ELSE now + 1
            /\ notifResp' = [NoNotifResp EXCEPT !.view = "mark_notification_read",
                                                !.user = u, !.target = nid,
                                                !.status = IF ajax THEN 200 ELSE 302,
                                                !.note = IF ajax THEN "success"
                                                         ELSE "notification_list"]
    /\ UNCHANGED <<rooms, msgs, pc, req, redirects, chatResp>>
    /\ UNCHANGED <<botVars, childVars, classVars, annVars, sendVars, moreVars>>

\* mark_all_notifications_read: filter(recipient=request.user,
\* is_read=False).update(is_read=True)
MarkAllNotificationsRead(u) ==
    /\ notifResp = NoNotifResp
    /\ notifs' = [n \in DOMAIN notifs |->
                     IF notifs[n].recipient = u /\ ~notifs[n].is_read
                     THEN [notifs[n] EXCEPT !.is_read = TRUE]
                     ELSE notifs[n]]
    /\ notifResp' = [NoNotifResp EXCEPT !.view = "mark_all_notifications_read",
                                        !.user = u, !.status = 302,
                                        !.note = "All notifications marked as read!"]
    /\ UNCHANGED now
    /\ UNCHANGED <<rooms, msgs, pc, req, redirects, chatResp>>
    /\ UNCHANGED <<botVars, childVars, classVars, annVars, sendVars, moreVars>>

\* the response leaves the server
NotifRespond ==
    /\ notifResp # NoNotifResp
    /\ notifResp' = NoNotifResp
    /\ UNCHANGED notifs
    /\ UNCHANGED <<rooms, msgs, now, pc, req, redirects, chatResp>>
    /\ UNCHANGED <<botVars, childVars, classVars, annVars, sendVars, moreVars>>

NotifNext ==
    \/ NotifRespond
    \/ \E u \in NotifUsers : NotificationList(u)
    \/ \E u \in NotifUsers, nid \in NotifIds, ajax \in BOOLEAN : MarkNotificationRead(u, nid, ajax)
    \/ \E u \in NotifUsers : MarkAllNotificationsRead(u)

(***************************************************************************)
(* A student's records as a teacher sees them (monitoring/views.py         *)
(* student_grades, student_attendance).                                    *)
(***************************************************************************)

NoStudentResp ==
    [view |-> NULL, teacher |-> NULL, student_id |-> NoChild, status |-> 0,
     note |-> NULL, grades |-> {}, attendance |-> <<>>]

StudentIdle == studentResp = NoStudentResp

\* the Child, Class, FinalGrade and Attendance tables hold any owner for
\* each class, any student and class for each FinalGrade row, and today's
\* Attendance rows of any children, each recorded by any teacher
StudentInit ==
    /\ guardians = [c \in Children |-> {"P1"}]
    /\ \E keys \in SUBSET Children :
          \E by \in [keys -> Teachers] :
             attendance = {[child |-> k, date |-> Today, status |-> "present",
                            recorded_by |-> by[k]] : k \in keys}
    /\ childResp = NoChildResp
    /\ classes \in [ClassRows -> Teachers]
    /\ \E st \in [GradeRows -> Children], cl \in [GradeRows -> ClassRows] :
          finalGrades = [g \in GradeRows |->
                            [student |-> st[g], class_obj |-> cl[g], quarter |-> 1,
                             final_grade |-> 85]]
    /\ classResp = NoClassResp
    /\ studentResp = NoStudentResp

\* get_object_or_404(Child, id=student_id) finds a row
ChildExists(sid) == sid \in DOMAIN guardians

\* FinalGrade.objects.filter(student=student, class_obj__teacher=teacher),
\* with their ids
StudentGradesOf(sid, teacher) ==
    {[id |-> g] @@ finalGrades[g] :
        g \in {x \in DOMAIN finalGrades :
                  /\ finalGrades[x].student = sid
                  /\ ClassOfTeacher(finalGrades[x].class_obj, teacher)}}

\* the head shared by the two views: the decorator, then the lookup of the
\* child that ends in Http404
StudentScoped(view, u, sid, page) ==
    /\ studentResp = NoStudentResp
    /\ studentResp' =
          IF ~TeacherRequired(u)
          THEN [NoStudentResp EXCEPT !.view = view, !.student_id = sid,
                                     !.status = 302, !.note = "wrong role"]
          ELSE IF ~ChildExists(sid)
          THEN [NoStudentResp EXCEPT !.view = view, !.teacher = TeacherProfile(u),
                                     !.student_id = sid, !.status = 404,
                                     !.note = "Http404"]
          ELSE page
    /\ UNCHANGED <<coreVars, eventVars, markVars>>

\* student_grades
StudentGrades(u, sid) ==
    StudentScoped("student_grades", u, sid,
                  [NoStudentResp EXCEPT !.view = "student_grades",
                                        !.teacher = TeacherProfile(u),
                                        !.student_id = sid, !.status = 200,
                                        !.note = "rendered",
                                        !.grades = StudentGradesOf(sid, TeacherProfile(u))])

\* student_attendance: Attendance.objects.filter(child=student)
\* .order_by('-date')[:30]
StudentAttendance(u, sid) ==
    StudentScoped("student_attendance", u, sid,
                  [NoStudentResp EXCEPT !.view = "student_attendance",
                                        !.teacher = TeacherProfile(u),
                                        !.student_id = sid, !.status = 200,
                                        !.note = "rendered",
                                        !.attendance = LatestFirst(AttendanceOf(sid), RecentLimit)])

\* the response leaves the server
StudentRespond ==
    /\ studentResp # NoStudentResp
    /\ studentResp' = NoStudentResp
    /\ UNCHANGED <<coreVars, eventVars, markVars>>

StudentNext ==
    \/ StudentRespond
    \/ \E u \in Users, sid \in ChildIds : StudentGrades(u, sid)
    \/ \E u \in Users, sid \in ChildIds : StudentAttendance(u, sid)

(***************************************************************************)
(* Events (information/views.py event_list; the events of                  *)
(* parent_dashboard; models.py Event).                                     *)
(***************************************************************************)

\* Event primary keys, and the ids a request may name
EventRows == {1, 2}
EventIds == EventRows \cup {9}

\* start dates: the day before date.today(), that day, the day after
EventDates ==
    { [y |-> 2025, m |-> 3, d |-> 9],
      [y |-> 2025, m |-> 3, d |-> 10],
      [y |-> 2025, m |-> 3, d |-> 11] }

\* the [:5] of the events of parent_dashboard
EventsLimit == 5

NoEventResp ==
    [view |-> NULL, user |-> NULL, target |-> 0, status |-> 0, note |-> NULL,
     events |-> <<>>]

EventIdle == events = <<>> /\ eventResp = NoEventResp

\* the Event table holds rows of any start date, flags and organizer
EventInit ==
    /\ \E sd \in [EventRows -> EventDates],
          ac \in [EventRows -> BOOLEAN],
          ca \in [EventRows -> BOOLEAN],
          by \in [EventRows -> Teachers] :
          events = [e \in EventRows |->
                       [start_date |-> sd[e], is_active |-> ac[e],
                        is_cancelled |-> ca[e], created_by |-> by[e]]]
    /\ eventResp = NoEventResp

\* Event.is_upcoming
IsUpcoming(e) == Ordinal(e.start_date) >= Ordinal(Today) /\ ~e.is_cancelled

\* Event.objects.filter(is_active=True, start_date__gte=date.today())
EventFilter(ev) ==
    {e \in DOMAIN ev : ev[e].is_active /\ Ordinal(ev[e].start_date) >= Ordinal(Today)}

\* .order_by('start_date'): the rows in every order the database may
\* return them, ascending start_date, equal dates in any order
EventQuerysets(ev) ==
    LET ids == EventFilter(ev)
        n == Cardinality(ids)
    IN  { seq \in [1..n -> ids] :
            /\ \A i, j \in 1..n : i # j => seq[i] # seq[j]
            /\ \A i, j \in 1..n :
                  i < j => Ordinal(ev[seq[i]].start_date) <= Ordinal(ev[seq[j]].start_date) }

\* the events of a response, each with its id
EventsPage(ev, seq) == [i \in 1..Len(seq) |-> [id |-> seq[i]] @@ ev[seq[i]]]

\* event_list
EventList(u) ==
    /\ eventResp = NoEventResp
    /\ \E seq \in EventQuerysets(events) :
          eventResp' = [NoEventResp EXCEPT !.view = "event_list", !.user = u,
                                           !.status = 200, !.note = "rendered",
                                           !.events = EventsPage(events, seq)]
    /\ UNCHANGED events
    /\ UNCHANGED <<coreVars, studentVars, markVars>>

\* the upcoming events of parent_dashboard
DashboardEvents(u) ==
    /\ eventResp = NoEventResp
    /\ IF ~ParentRequired(u)
       THEN eventResp' = [NoEventResp EXCEPT !.view = "parent_dashboard",
                                             !.status = 302, !.note = "wrong role"]
       ELSE \E seq \in EventQuerysets(events) :
               eventResp' = [NoEventResp EXCEPT
                                !.view = "parent_dashboard", !.user = u,
                                !.status = 200, !.note = "rendered",
                                !.events = EventsPage(events,
                                                      SubSeq(seq, 1, IF Len(seq) < EventsLimit
                                                                     THEN Len(seq)
                                                                     ELSE EventsLimit))]
    /\ UNCHANGED events
    /\ UNCHANGED <<coreVars, studentVars, markVars>>

\* get_object_or_404(Event, id=event_id, created_by=teacher) finds a row
EventOfTeacher(eid, teacher) == eid \in DOMAIN events /\ events[eid].created_by = teacher

\* the Event table without the row eid
EventsWithout(ev, eid) == [e \in DOMAIN ev \ {eid} |-> ev[e]]

\* delete_event
DeleteEvent(u, eid, method) ==
    /\ eventResp = NoEventResp
    /\ IF ~TeacherRequired(u)
       THEN /\ eventResp' = [NoEventResp EXCEPT !.view = "delete_event", !.target = eid,
                                                !.status = 302, !.note = "wrong role"]
            /\ UNCHANGED events
       ELSE IF ~EventOfTeacher(eid, TeacherProfile(u))
       THEN /\ eventResp' = [NoEventResp EXCEPT !.view = "delete_event", !.target = eid,
                                                !.status = 404, !.note = "Http404"]
            /\ UNCHANGED events
       ELSE IF IsPost(method)
       THEN /\ events' = EventsWithout(events, eid)
            /\ eventResp' = [NoEventResp EXCEPT !.view = "delete_event", !.user = u,
                                                !.target = eid, !.status = 302,
                                                !.note = "Event deleted successfully!"]
       ELSE /\ eventResp' = [NoEventResp EXCEPT !.view = "delete_event", !.user = u,
                                                !.target = eid, !.status = 302,
                                                !.note = "event_detail"]
            /\ UNCHANGED events
    /\ UNCHANGED <<coreVars, studentVars, markVars>>

\* the response leaves the server
EventRespond ==
    /\ eventResp # NoEventResp
    /\ eventResp' = NoEventResp
    /\ UNCHANGED events
    /\ UNCHANGED <<coreVars, studentVars, markVars>>

EventNext ==
    \/ EventRespond
    \/ \E u \in {"ann", "tess", "root"} : EventList(u)
    \/ \E u \in {"ann", "tess"} : DashboardEvents(u)
    \/ \E u \in {"ann", "tess", "tom"}, eid \in EventIds, method \in Methods :
          DeleteEvent(u, eid, method)

(***************************************************************************)
(* The mark-as-read loops of chat_room and mark_messages_read, taken by    *)
(* workers that may interleave.                                            *)
(***************************************************************************)

\* the two views that run the loop
MarkViews == {"chat_room", "mark_messages_read"}

NoMark == [view |-> NULL, user |-> NULL, room_id |-> 0, status |-> 0, unread |-> <<>>]

MarkIdle ==
    /\ mpc = [w \in Workers |-> "idle"]
    /\ mloc = [w \in Workers |-> NoMark]

\* the ids of a set in ascending order: order_by('created_at'), the ordering
\* of ChatMessage
RECURSIVE Ascending(_)
Ascending(ids) ==
    IF ids = {} THEN <<>>
    ELSE LET lo == CHOOSE x \in ids : \A z \in ids : x <= z
         IN  <<lo>> \o Ascending(ids \ {lo})

\* the objects the loop iterates over: the rows of the unread queryset as
\* they are when the loop starts, each with its primary key
UnreadObjects(ms, rid, u) ==
    LET ids == Ascending(Unread(ms, rid, u))
    IN  [i \in 1..Len(ids) |-> [pk |-> ids[i], obj |-> ms[ids[i]]]]

\* who is turned away: chat_room redirects a user of neither role,
\* mark_messages_read answers 403
MarkRefusal(view, access) ==
    IF access = "404" THEN 404
    ELSE IF view = "chat_room" THEN 302 ELSE 403

\* chat_room and mark_messages_read up to the start of the loop: the room
\* lookup, then the unread queryset is evaluated
MarkFetch(w, view, u, rid) ==
    LET access == RoomAccess(u, rid)
    IN  /\ mpc[w] = "idle"
        /\ IF access # "room"
           THEN /\ mloc' = [mloc EXCEPT ![w] = [NoMark EXCEPT !.view = view, !.room_id = rid,
                                                             !.status = MarkRefusal(view, access)]]
                /\ mpc' = [mpc EXCEPT ![w] = "respond"]
           ELSE /\ mloc' = [mloc EXCEPT ![w] = [view |-> view, user |-> u, room_id |-> rid,
                                                status |-> 200,
                                                unread |-> UnreadObjects(msgs, rid, u)]]
                /\ mpc' = [mpc EXCEPT ![w] = IF UnreadObjects(msgs, rid, u) = <<>>
                                             THEN "respond" ELSE "loop"]
        /\ UNCHANGED <<rooms, msgs, now, pc, req, redirects, chatResp>>
        /\ UNCHANGED <<botVars, childVars, classVars, annVars, sendVars, notifVars>>
        /\ UNCHANGED <<studentVars, eventVars>>

\* the row as msg.save() writes it: every field of the object in memory
SavedMessage(obj, t) == MarkAsRead(obj, t)

\* one turn of the loop: msg.mark_as_read() on the object in memory, which
\* saves the object over its row
MarkStep(w) ==
    LET head == Head(mloc[w].unread)
        saved == SavedMessage(head.obj, now)
    IN  /\ mpc[w] = "loop"
        /\ msgs' = [msgs EXCEPT ![head.pk] = saved]
        /\ now' = IF saved # head.obj THEN now + 1 ELSE now
        /\ mloc' = [mloc EXCEPT ![w].unread = Tail(mloc[w].unread)]
        /\ mpc' = [mpc EXCEPT ![w] = IF Tail(mloc[w].unread) = <<>>
                                     THEN "respond" ELSE "loop"]
        /\ UNCHANGED <<rooms, pc, req, redirects, chatResp>>
        /\ UNCHANGED <<botVars, childVars, classVars, annVars, sendVars, notifVars>>
        /\ UNCHANGED <<studentVars, eventVars>>

\* the response leaves the server
MarkRespond(w) ==
    /\ mpc[w] = "respond"
    /\ mpc' = [mpc EXCEPT ![w] = "idle"]
    /\ mloc' = [mloc EXCEPT ![w] = NoMark]
    /\ UNCHANGED <<rooms, msgs, now, pc, req, redirects, chatResp>>
    /\ UNCHANGED <<botVars, childVars, classVars, annVars, sendVars, notifVars>>
    /\ UNCHANGED <<studentVars, eventVars>>

\* one room, its parent and its teacher sending messages, and chat_room and
\* mark_messages_read requests of them and of others that interleave
MarkNext ==
    \/ ChatRespond
    \/ StartChat("ann", "T1")
    \/ \E u \in {"ann", "tess"} : SendMessage(u, 1, <<" ", "h", "i", " ">>)
    \/ \E w \in Workers, view \in MarkViews, u \in {"ann", "tess", "ben"} :
          MarkFetch(w, view, u, 1)
    \/ \E w \in Workers : MarkStep(w)
    \/ \E w \in Workers : MarkRespond(w)

\* nothing of the last three sections
MoreIdle == StudentIdle /\ EventIdle /\ MarkIdle

(***************************************************************************)
(* The views that look their target up within the requester's scope        *)
(* (child_detail, chat_room, send_message, mark_messages_read,             *)
(* mark_notification_read, the class-scoped teacher views), served one     *)
(* request at a time over one store.                                       *)
(***************************************************************************)

\* no response is on its way out
Quiet ==
    /\ chatResp = NoChatResp
    /\ childResp = NoChildResp
    /\ classResp = NoClassResp
    /\ notifResp = NoNotifResp

\* the rows of two parents, two teachers and two recipients
ScopedChild ==
    /\ guardians = [c \in Children |-> IF c = 1 THEN {"P1"} ELSE {"P2"}]
    /\ attendance = {[child |-> c, date |-> Today, status |-> "present"] : c \in Children}
    /\ childResp = NoChildResp

ScopedClass ==
    /\ classes = [c \in ClassRows |-> IF c = 1 THEN "T1" ELSE "T2"]
    /\ finalGrades = [g \in GradeRows |->
                         [student |-> g, class_obj |-> g, quarter |-> 1,
                          final_grade |-> 85]]
    /\ classResp = NoClassResp

ScopedNotif ==
    /\ notifs = [n \in NotifRows |->
                    [recipient |-> IF n = 2 THEN "tess" ELSE "ann",
                     is_read |-> FALSE, read_at |-> NoTime]]
    /\ notifResp = NoNotifResp

\* the room start_chat made for parent P1 and teacher T1, no message yet
ScopedChat ==
    /\ rooms = <<[parent |-> "P1", teacher |-> "T1", last_message_at |-> NoTime]>>
    /\ msgs = <<>>
    /\ now = 1
    /\ pc = [w \in Workers |-> "idle"]
    /\ req = [w \in Workers |-> NoReq]
    /\ redirects = {<<"P1", "T1", 1>>}
    /\ chatResp = NoChatResp

\* a store in which the tables of one concern hold rows and the others are
\* empty
ScopedInit ==
    /\ BotIdle /\ AnnIdle /\ SendIdle /\ MoreIdle
    /\ \/ ScopedChat /\ ChildIdle /\ ClassIdle /\ NotifIdle
       \/ ChatInit /\ ScopedChild /\ ClassIdle /\ NotifIdle
       \/ ChatInit /\ ChildIdle /\ ScopedClass /\ NotifIdle
       \/ ChatInit /\ ChildIdle /\ ClassIdle /\ ScopedNotif

ScopedNext ==
    \/ ChatRespond
    \/ ChildRespond
    \/ ClassRespond
    \/ NotifRespond
    \/ Quiet /\ \E u \in Users, cid \in ChildIds : ChildDetail(u, cid)
    \/ Quiet /\ \E u \in Users, rid \in RoomIds : ChatRoomView(u, rid)
    \/ Quiet /\ \E u \in Users, rid \in RoomIds, raw \in Contents : SendMessage(u, rid, raw)
    \/ Quiet /\ \E u \in Users, rid \in RoomIds : MarkMessagesRead(u, rid)
    \/ Quiet /\ \E u \in NotifUsers, nid \in NotifIds, ajax \in BOOLEAN :
                   MarkNotificationRead(u, nid, ajax)
    \/ Quiet /\ \E u \in Users, cid \in ClassIds : ClassDetail(u, cid)
    \/ Quiet /\ \E u \in Users, cid \in ClassIds : ClassStudents(u, cid)
    \/ Quiet /\ \E u \in Users, cid \in ClassIds : ClassGrades(u, cid)
    \/ Quiet /\ \E u \in Users, cid \in ClassIds, method \in Methods : UploadGrades(u, cid, method)
    \/ Quiet /\ \E u \in Users, cid \in ClassIds : DownloadGradeTemplate(u, cid)
    \/ Quiet /\ \E u \in Users, cid \in ClassIds : ClassReport(u, cid)
    \/ Quiet /\ \E u \in Users, gid \in GradeIds, method \in Methods : EditGrade(u, gid, method)
    \/ Quiet /\ \E u \in Users, cid \in ClassIds : TeacherClassDetail(u, cid)

(***************************************************************************)
(* Specifications.                                                         *)
(***************************************************************************)

\* the state after construction: empty chat tables, idle workers
\* none of the tables of the later sections filled
RestIdle == ClassIdle /\ AnnIdle /\ SendIdle /\ NotifIdle /\ MoreIdle

Init == ChatInit /\ BotIdle /\ ChildIdle /\ RestIdle

\* the BotMessage table filled, the chat untouched
InitBot == BotInit /\ ChatInit /\ ChildIdle /\ RestIdle

\* the guardians and the Attendance table filled, the rest untouched
InitChild == ChildInit /\ ChatInit /\ BotIdle /\ RestIdle

\* the Class and FinalGrade tables filled, the rest untouched
InitClass == ClassInit /\ ChatInit /\ BotIdle /\ ChildIdle /\ AnnIdle /\ SendIdle /\ NotifIdle /\ MoreIdle

\* the chat, one request at a time
Spec == Init /\ [][ChatNext]_vars

\* start_chat requests that interleave inside get_or_create
SpecStartChat == Init /\ [][StartChatNext]_vars

\* one room's chat together with direct calls of ChatMessage.mark_as_read
SpecMarkAsRead == Init /\ [][MarkAsReadNext]_vars

\* the chatbot
SpecBot == InitBot /\ [][BotNext]_vars

\* the parent's views of a child
SpecChild == InitChild /\ [][ChildNext]_vars

\* the teacher's class and grade views
SpecClass == InitClass /\ [][ClassNext]_vars

\* the Announcement table filled, the rest untouched
InitAnn == AnnInit /\ ChatInit /\ BotIdle /\ ChildIdle /\ ClassIdle /\ SendIdle /\ NotifIdle /\ MoreIdle

\* announcements, one request at a time
SpecAnn == InitAnn /\ [][AnnNext]_vars

\* the announcement and chatbot tables of the interleaved runs
InitRace == RaceInit /\ ChatInit /\ ChildIdle /\ ClassIdle /\ SendIdle /\ NotifIdle /\ MoreIdle

\* announcement_detail and chatbot_query requests that interleave
SpecRace == InitRace /\ [][RaceNext]_vars

\* send_message requests that interleave
SpecSend == Init /\ [][SendNext]_vars

\* the Notification table filled, the rest untouched
InitNotif == NotifInit /\ ChatInit /\ BotIdle /\ ChildIdle /\ ClassIdle /\ AnnIdle /\ SendIdle /\ MoreIdle

\* notifications
SpecNotif == InitNotif /\ [][NotifNext]_vars

\* the scoped views over one store
SpecScoped == ScopedInit /\ [][ScopedNext]_vars

\* the tables a student's records come from filled, the rest untouched
InitStudent ==
    /\ StudentInit /\ ChatInit /\ BotIdle /\ AnnIdle /\ SendIdle /\ NotifIdle
    /\ EventIdle /\ MarkIdle

\* a student's records as a teacher sees them
SpecStudent == InitStudent /\ [][StudentNext]_vars

\* the Event table filled, the rest untouched
InitEvent ==
    /\ EventInit /\ ChatInit /\ BotIdle /\ ChildIdle /\ ClassIdle /\ AnnIdle
    /\ SendIdle /\ NotifIdle /\ StudentIdle /\ MarkIdle

\* events
SpecEvent == InitEvent /\ [][EventNext]_vars

\* chat_room and mark_messages_read requests that interleave
SpecMark == Init /\ [][MarkNext]_vars

(***************************************************************************)
(* Properties of the chatbot, checked under SpecBot.                       *)
(***************************************************************************)

\* the record is active and one of its keywords occurs in the query
BotMatches(i, q) == bots[i].is_active /\ KeywordMatch(bots[i], q)

\* the request was a POST with a query that is not empty once normalised
BotAnswered(resp) == resp.method = "POST" /\ resp.query # <<>>

\* C1: a POST with a non-empty query that contains a keyword of the active
\* record of highest priority is answered with that record's response_text,
\* whatever lower-priority active records and inactive records also match
\* (when several active records share the highest priority, with the
\* response_text of one of those that match).
C1_HighestPriorityAnswers ==
    BotAnswered(botResp) =>
        /\ botResp.status = 200
        /\ \A b \in BotIds :
              ( /\ BotMatches(b, botResp.query)
                /\ \A o \in BotIds \ {b} :
                      bots[o].is_active => bots[o].priority < bots[b].priority )
              => botResp.body = bots[b].response_text
        /\ \A b \in BotIds :
              ( /\ BotMatches(b, botResp.query)
                /\ \A o \in BotIds :
                      bots[o].is_active => bots[o].priority <= bots[b].priority )
              => \E w \in BotIds :
                    /\ BotMatches(w, botResp.query)
                    /\ bots[w].priority = bots[b].priority
                    /\ botResp.body = bots[w].response_text

\* C1 witness: the strictly highest active record answered while a
\* lower-priority active record and an inactive record match as well
C1_Witness ==
    /\ BotAnswered(botResp)
    /\ \E b, lo, off \in BotIds :
          /\ BotMatches(b, botResp.query)
          /\ \A o \in BotIds \ {b} :
                bots[o].is_active => bots[o].priority < bots[b].priority
          /\ botResp.body = bots[b].response_text
          /\ BotMatches(lo, botResp.query) /\ lo # b
          /\ ~bots[off].is_active
          /\ KeywordMatch(bots[off], botResp.query)
          /\ bots[off].priority >= bots[b].priority

\* the records a step changes
BotChanged == {i \in BotIds : bots'[i] # bots[i]}

\* C7: a query that matches a record increases that record's usage_count by
\* exactly 1 and leaves every other record as it was; no query changes more
\* than one record, and no field but usage_count.
C7_UsageFrame ==
    [][ /\ Cardinality(BotChanged) <= 1
        /\ \A i \in BotChanged :
              bots'[i] = [bots[i] EXCEPT !.usage_count = bots[i].usage_count + 1]
        /\ ( BotAnswered(botResp') /\ \E i \in BotIds : BotMatches(i, botResp'.query) )
              => \E i \in BotIds :
                    /\ BotChanged = {i}
                    /\ BotMatches(i, botResp'.query)
                    /\ botResp'.body = bots[i].response_text ]_vars

\* C7 witness: one record was counted once while another active record that
\* matches the same query was left at 0
C7_Witness ==
    /\ BotAnswered(botResp)
    /\ \E i, j \in BotIds :
          /\ i # j
          /\ botResp.body = bots[i].response_text
          /\ bots[i].usage_count = 1
          /\ BotMatches(j, botResp.query)
          /\ bots[j].usage_count = 0

IsBlank(raw) == \A i \in 1..Len(raw) : raw[i] = " "

\* C2: a send_message POST whose content is empty or only whitespace is
\* answered with status 400 and changes neither the ChatMessage table nor
\* any ChatRoom, whoever asks and whatever room id is named.
C2_BlankContentRejected ==
    [][ ( /\ chatResp'.view = "send_message"
          /\ chatResp'.method = "POST"
          /\ IsBlank(chatResp'.content) )
        => /\ chatResp'.status = 400
           /\ msgs' = msgs
           /\ rooms' = rooms ]_vars

\* C2 witness: a whitespace-only content was refused while a room exists
\* that would have taken the message
C2_Witness ==
    /\ chatResp.view = "send_message"
    /\ chatResp.method = "POST"
    /\ chatResp.content # <<>>
    /\ IsBlank(chatResp.content)
    /\ chatResp.status = 400
    /\ Len(rooms) >= 1

\* C3: marking read is idempotent: once a message is read, a further
\* mark_as_read, mark_messages_read or chat_room leaves is_read true and
\* read_at at the value the first call stamped.
C3_MarkReadIdempotent ==
    [][ \A i \in DOMAIN msgs :
            msgs[i].is_read
            => /\ msgs'[i].is_read
               /\ msgs'[i].read_at = msgs[i].read_at
               /\ msgs[i].read_at # NoTime ]_vars

\* C3 witness: mark_as_read was called on a message that had been read at
\* an earlier clock value
C3_Witness ==
    /\ chatResp.view = "mark_as_read"
    /\ chatResp.note = "was read"
    /\ msgs[chatResp.room].is_read
    /\ msgs[chatResp.room].read_at < now

\* the participants of a room: the user of its parent and of its teacher
Participants(rid) == {ParentUser(rooms[rid].parent), TeacherUser(rooms[rid].teacher)}

\* C9: the sender of every ChatMessage is one of the two participants of
\* its room, and a message is added only by a send_message of a participant
\* of the room it goes to.
C9_SenderIsParticipant ==
    \A i \in DOMAIN msgs :
        /\ msgs[i].chat_room \in DOMAIN rooms
        /\ msgs[i].sender \in Participants(msgs[i].chat_room)

\* C9 witness: a room holds a message, and a send_message naming that
\* existing room was turned away with not-found
C9_Witness ==
    /\ chatResp.view = "send_message"
    /\ chatResp.status = 404
    /\ chatResp.room \in DOMAIN rooms
    /\ \E i \in DOMAIN msgs : msgs[i].chat_room = chatResp.room

\* C10: a mark_messages_read or chat_room served for a participant leaves
\* every message of the room not authored by the requester read, with a
\* read_at stamp; messages authored by the requester, messages of other
\* rooms and the rooms are unchanged; the count mark_messages_read returns
\* is the number of messages that went from unread to read.
C10_MarkReadFrame ==
    [][ ( /\ chatResp'.view \in {"mark_messages_read", "chat_room"}
          /\ chatResp'.status = 200 )
        => LET u == chatResp'.user
               rid == chatResp'.room
           IN  /\ DOMAIN msgs' = DOMAIN msgs
               /\ rooms' = rooms
               /\ u \in Participants(rid)
               /\ \A i \in DOMAIN msgs :
                     IF msgs[i].chat_room = rid /\ msgs[i].sender # u
                     THEN /\ msgs'[i].is_read
                          /\ msgs'[i].read_at # NoTime
                          /\ msgs'[i] = [msgs[i] EXCEPT !.is_read = msgs'[i].is_read,
                                                        !.read_at = msgs'[i].read_at]
                     ELSE msgs'[i] = msgs[i]
               /\ chatResp'.view = "mark_messages_read"
                     => chatResp'.count =
                           Cardinality({i \in DOMAIN msgs :
                                           ~msgs[i].is_read /\ msgs'[i].is_read}) ]_vars

\* C10 witness: mark_messages_read marked a message of the room while an
\* unread message of the requester in that room and an unread message of
\* another room stayed unread
C10_Witness ==
    /\ chatResp.view = "mark_messages_read"
    /\ chatResp.status = 200
    /\ chatResp.count >= 1
    /\ \E i, j, k \in DOMAIN msgs :
          /\ msgs[i].chat_room = chatResp.room
          /\ msgs[i].sender # chatResp.user
          /\ msgs[i].is_read
          /\ msgs[j].chat_room = chatResp.room
          /\ msgs[j].sender = chatResp.user
          /\ ~msgs[j].is_read
          /\ msgs[k].chat_room # chatResp.room
          /\ ~msgs[k].is_read

\* C4: whatever start_chat requests are served, interleaved inside
\* get_or_create or not, no two ChatRoom rows have the same (parent,
\* teacher) pair, and every redirect of a pair names the one room of that
\* pair.
C4_OneRoomPerPair ==
    /\ \A i, j \in DOMAIN rooms :
          (rooms[i].parent = rooms[j].parent /\ rooms[i].teacher = rooms[j].teacher)
          => i = j
    /\ \A r \in redirects :
          /\ r[3] \in DOMAIN rooms
          /\ rooms[r[3]].parent = r[1]
          /\ rooms[r[3]].teacher = r[2]
    /\ \A r1, r2 \in redirects :
          (r1[1] = r2[1] /\ r1[2] = r2[2]) => r1[3] = r2[3]

\* C4 witness: two requests of one pair both missed the room in their get;
\* the first created it and the second, refused by the unique constraint,
\* was redirected to it
C4_Witness ==
    /\ chatResp.view = "start_chat"
    /\ chatResp.note = "integrity error"
    /\ chatResp.room \in DOMAIN rooms
    /\ Len(rooms) >= 2

\* C16: a send_message POST with content that is not blank, and a
\* mark_messages_read request, made by a user who is neither parent nor
\* teacher, is answered 403 'Unauthorized' and changes no ChatRoom or
\* ChatMessage row: no message created, none marked read, no room timestamp
\* updated.
C16_NeitherRoleGets403 ==
    [][ \A u \in {x \in Users : ~IsParent(x) /\ ~IsTeacher(x)} :
          /\ chatResp'.view = "send_message"
                => \A rid \in RoomIds, raw \in {c \in Contents : Strip(c) # <<>>} :
                      SendMessage(u, rid, raw)
                      => /\ chatResp'.status = 403
                         /\ chatResp'.note = "Unauthorized"
                         /\ msgs' = msgs
                         /\ rooms' = rooms
          /\ chatResp'.view = "mark_messages_read"
                => \A rid \in RoomIds :
                      MarkMessagesRead(u, rid)
                      => /\ chatResp'.status = 403
                         /\ chatResp'.note = "Unauthorized"
                         /\ msgs' = msgs
                         /\ rooms' = rooms ]_vars

\* C16 witness: send_message with content answered 403 while the store holds
\* a room and an unread message
C16_Witness ==
    /\ chatResp.view = "send_message"
    /\ chatResp.status = 403
    /\ Strip(chatResp.content) # <<>>
    /\ rooms # <<>>
    /\ \E i \in DOMAIN msgs : ~msgs[i].is_read

(***************************************************************************)
(* Properties of the parent's views of a child.                            *)
(***************************************************************************)

\* a response to a parent (the role check passed)
ToParent(view) == childResp.view = view /\ childResp.parent # NULL

\* C5: child_detail renders a child's record (classes, grades, attendance)
\* to a parent only if the parent is a guardian of that child, and then it is
\* the record of the child asked for; for any other child id, of a child of
\* other guardians or of no child, the response is the one not-found
\* redirect, which carries no child, class, grade or attendance row.
C5_GuardianOnly ==
    ToParent("child_detail")
    => LET cid == childResp.child_id
       IN  IF cid \in Children /\ childResp.parent \in guardians[cid]
           THEN /\ childResp.status = 200
                /\ childResp.child = cid
                /\ childResp.classes = {e.class_obj : e \in {x \in Enrollments : x.student = cid}}
                /\ childResp.grades = {g \in FinalGrades : g.student = cid}
                /\ {childResp.attendance[i] : i \in DOMAIN childResp.attendance}
                      = {a \in attendance : a.child = cid}
                /\ \A i \in DOMAIN childResp.stats : childResp.stats[i].child = cid
           ELSE childResp = [NoChildResp EXCEPT
                                !.view = "child_detail",
                                !.parent = childResp.parent,
                                !.child_id = cid,
                                !.status = 302,
                                !.note = "Child not found or you do not have access."]

\* C5 witness: a parent who has a child of their own asked for a child of
\* other guardians, one with attendance rows, and got the not-found redirect
C5_Witness ==
    /\ ToParent("child_detail")
    /\ childResp.status = 302
    /\ childResp.child_id \in Children
    /\ guardians[childResp.child_id] # {}
    /\ childResp.parent \notin guardians[childResp.child_id]
    /\ \E c \in Children : childResp.parent \in guardians[c]
    /\ \E a \in attendance : a.child = childResp.child_id

\* the Attendance rows of child c inside the window of the view
InWindow(view, c) ==
    IF view = "parent_dashboard"
    THEN {a \in attendance : a.child = c /\ a.date.m = Today.m /\ a.date.y = Today.y}
    ELSE {a \in attendance : a.child = c /\ Ordinal(Today) - Ordinal(a.date) <= WindowDays}

\* C6: parent_dashboard and child_detail never end in a division error; for
\* every child they report, total_days and present_days count the rows of the
\* window (current month and year; last 30 days), attendance_rate is 0 when
\* the window holds no row, and otherwise it is present_days / total_days
\* * 100 to one decimal (within 0.05, here in tenths of a percent) and lies
\* between 0 and 100.
C6_AttendanceRate ==
    \A view \in {"parent_dashboard", "child_detail"} :
        ToParent(view)
        => /\ childResp.status # 500
           /\ (view = "child_detail" /\ childResp.status = 200) => Len(childResp.stats) = 1
           /\ \A i \in DOMAIN childResp.stats :
                 LET st == childResp.stats[i]
                     rows == InWindow(view, st.child)
                     t == Cardinality(rows)
                     p == Cardinality({a \in rows : a.status = "present"})
                     r == st.attendance_rate
                 IN  /\ st.total_days = t
                     /\ st.present_days = p
                     /\ IF t = 0 THEN r = 0
                        ELSE /\ 0 <= r /\ r <= 1000
                             /\ 2 * (r * t - 1000 * p) <= t
                             /\ 2 * (1000 * p - r * t) <= t

\* C6 witness: child_detail rendered a child whose Attendance rows all lie
\* outside the last 30 days: total_days 0, attendance_rate 0
C6_Witness ==
    /\ ToParent("child_detail")
    /\ childResp.status = 200
    /\ childResp.attendance # <<>>
    /\ childResp.stats[1].total_days = 0
    /\ childResp.stats[1].attendance_rate = 0

(***************************************************************************)
(* Properties of the teacher's class and grade views, checked under        *)
(* SpecClass.                                                              *)
(***************************************************************************)

\* the views scoped to a class, and the grade-scoped edit_grade
ClassViews ==
    {"class_detail", "class_students", "class_grades", "upload_grades",
     "download_grade_template", "class_report", "users.class_detail"}

\* the class a teacher's request is about: the class named, or the class of
\* the grade named; NoClass when there is no such row
ClassConcerned(r) ==
    IF r.view = "edit_grade"
    THEN IF r.target \in DOMAIN finalGrades
         THEN finalGrades[r.target].class_obj ELSE NoClass
    ELSE IF r.target \in DOMAIN classes THEN r.target ELSE NoClass

\* the not-found outcome of a view: Http404, or for class_detail of
\* users/views.py the redirect with the not-found message
ClassNotFound(r) ==
    IF r.view = "users.class_detail"
    THEN r.status = 302 /\ r.note = "Class not found or you do not have access."
    ELSE r.status = 404

\* C11: a class-scoped request of a teacher (class_detail, class_students,
\* class_grades, upload_grades, download_grade_template, class_report,
\* edit_grade) succeeds only when that teacher owns the class concerned, and
\* then it renders rows of that class only; for a class of another teacher
\* (or no class) the outcome is not-found, the response carries no class,
\* enrollment or grade, and no Class or FinalGrade row changes.
C11_OwnerOnly ==
    [][ ( /\ classResp = NoClassResp
          /\ classResp' # NoClassResp
          /\ classResp'.teacher # NULL )
        => LET r == classResp'
               cls == ClassConcerned(r)
           IN  /\ r.view \in ClassViews \cup {"edit_grade"}
               /\ IF cls # NoClass /\ classes[cls] = r.teacher
                  THEN /\ ~ClassNotFound(r)
                       /\ r.status \in {200, 302}
                       /\ r.class_obj = cls
                       /\ \A e \in r.enrollments : e.class_obj = cls
                       /\ \A g \in r.grades : g.class_obj = cls
                  ELSE /\ ClassNotFound(r)
                       /\ r.class_obj = NoClass
                       /\ r.enrollments = {}
                       /\ r.grades = {}
                       /\ finalGrades' = finalGrades
                       /\ classes' = classes ]_vars

\* C11 witness: a teacher posted to edit_grade for a grade of a class that
\* another teacher owns, a grade whose stored value is stale, and got Http404
C11_Witness ==
    /\ classResp.view = "edit_grade"
    /\ classResp.method = "POST"
    /\ classResp.status = 404
    /\ classResp.teacher # NULL
    /\ classResp.target \in DOMAIN finalGrades
    /\ classes[finalGrades[classResp.target].class_obj] # classResp.teacher
    /\ finalGrades[classResp.target] # ComputeFinalGrade(finalGrades[classResp.target])

\* C20: a step changes a FinalGrade row only if it is a POST to edit_grade
\* by the teacher who owns the class of that grade, and then it changes that
\* row alone, to its recomputed value; a GET to edit_grade, a request of any
\* other user and every other handler, upload_grades included, leave every
\* FinalGrade row as it was, and only such a POST reports a grade updated.
C20_RecomputeOnlyByOwnerPost ==
    [][ ( \/ finalGrades' # finalGrades
          \/ /\ classResp' # classResp
             /\ classResp'.note = "Grade updated successfully!" )
        => LET r == classResp'
           IN  /\ r.view = "edit_grade"
               /\ r.method = "POST"
               /\ r.target \in DOMAIN finalGrades
               /\ r.teacher = classes[finalGrades[r.target].class_obj]
               /\ finalGrades' = [finalGrades EXCEPT
                                     ![r.target] = ComputeFinalGrade(finalGrades[r.target])] ]_vars

\* C20 witness: the owner's POST to edit_grade replaced a stale stored value
\* by the mean of the grade items
C20_Witness ==
    /\ classResp.view = "edit_grade"
    /\ classResp.method = "POST"
    /\ classResp.status = 302
    /\ finalGrades[classResp.target].final_grade = 70
    /\ \E g \in DOMAIN finalGrades : finalGrades[g].final_grade \in StoredGrades

(***************************************************************************)
(* Properties of announcements.                                            *)
(***************************************************************************)

\* C15: every announcement that announcement_list, the parent dashboard or
\* announcement_detail renders is published, and one rendered to a parent
\* has target_audience 'all' or 'parents', one rendered to a teacher 'all'
\* or 'teachers'.
C15_AudienceRestricted ==
    annResp.status = 200
    => \A i \in DOMAIN annResp.announcements :
          LET a == annResp.announcements[i]
          IN  /\ a.is_published
              /\ IsParent(annResp.user) => a.target_audience \in {"all", "parents"}
              /\ IsTeacher(annResp.user) => a.target_audience \in {"all", "teachers"}

\* every worker is idle: no request is being served
AllIdle == \A w \in Workers : apc[w] = "idle"

\* C13: no step lowers the stored views_count of an announcement, also when
\* announcement_detail requests interleave between the read of the row and
\* its save.
C13_ViewsNeverDecrease ==
    [][ \A a \in DOMAIN anns : anns'[a].views_count >= anns[a].views_count ]_vars

\* C14: there is never more than one AnnouncementRead row per
\* (announcement, user) pair; every pair of a completed detail view has its
\* row, rows exist for published announcements found by the view only, and
\* once no request is being served the pairs with a row are exactly the pairs
\* of the completed detail views.
C14_OneReadPerPair ==
    /\ \A k \in DOMAIN annReads : annReads[k] <= 1
    /\ \A k \in annDone : annReads[k] = 1
    /\ \A k \in DOMAIN annReads :
          annReads[k] > 0
          => /\ anns[k[1]].is_published
             /\ \/ k \in annDone
                \/ \E w \in Workers : apc[w] = "marked" /\ aloc[w].obj.id = k[1]
                                                         /\ aloc[w].user = k[2]
    /\ AllIdle => \A k \in DOMAIN annReads : annReads[k] = 1 <=> k \in annDone

\* C14 witness: one user completed two detail views of one announcement,
\* the two requests interleaved, and the pair has its one row
C14_Witness ==
    /\ AllIdle
    /\ raced
    /\ annDone = {<<1, "ann">>}
    /\ incs.ann[1] >= 2
    /\ annReads[<<1, "ann">>] = 1

\* C17: as long as no request started while another stood between its read
\* and its save, every counter equals the number of completed requests that
\* incremented it: views_count of an announcement the number of completed
\* detail views, usage_count of a BotMessage the number of answers it gave.
C17_SequentialCountsExact ==
    ~raced
    => /\ \A a \in DOMAIN anns : anns[a].views_count = incs.ann[a]
       /\ \A b \in DOMAIN bots : bots[b].usage_count = incs.bot[b]

\* C17 witness (the lost update): all requests completed, two detail views
\* of one announcement and two answers of one BotMessage interleaved, and
\* each counter grew by fewer than the requests that incremented it
C17_Witness ==
    /\ AllIdle
    /\ raced
    /\ incs.ann[1] = 2 /\ anns[1].views_count < 2
    /\ \E b \in DOMAIN bots : incs.bot[b] = 2 /\ bots[b].usage_count < 2

(***************************************************************************)
(* Properties of interleaved send_message requests and of notifications.   *)
(***************************************************************************)

\* C18: no step moves the last_message_at of a ChatRoom backwards, and
\* whenever no send_message request is in flight, the last_message_at of a
\* room is not earlier than the created_at of any message of that room; also
\* when send_message requests on one room interleave.
C18_LastMessageAtCoversMessages ==
    [][ /\ \A r \in DOMAIN rooms :
              rooms'[r].last_message_at >= rooms[r].last_message_at
        /\ (\A w \in Workers : spc'[w] = "idle")
              => \A i \in DOMAIN msgs' :
                    rooms'[msgs'[i].chat_room].last_message_at >= msgs'[i].created_at ]_vars

\* C19: after every step each Notification has is_read true exactly when
\* its read_at is not null, and a step of mark_notification_read or
\* mark_all_notifications_read changes only rows whose recipient is the
\* requester.
C19_ReadFlagHasTimestamp ==
    [][ /\ \A n \in DOMAIN notifs' : notifs'[n].is_read <=> notifs'[n].read_at # NoTime
        /\ \A n \in DOMAIN notifs :
              notifs'[n] # notifs[n] => notifs[n].recipient = notifResp'.user ]_vars

(***************************************************************************)
(* Properties of the scoped views, checked under SpecScoped.               *)
(***************************************************************************)

\* the rows of the store
StoreSame ==
    UNCHANGED <<bots, rooms, msgs, guardians, attendance, classes, finalGrades,
                anns, annReads, notifs>>

\* the target exists and belongs to the requester
ChildInScope(u, cid) ==
    \E c \in DOMAIN guardians : c = cid /\ ParentProfile(u) \in guardians[c]

RoomInScope(u, rid) ==
    \E r \in DOMAIN rooms :
       /\ r = rid
       /\ \/ IsParent(u) /\ rooms[r].parent = ParentProfile(u)
          \/ IsTeacher(u) /\ rooms[r].teacher = TeacherProfile(u)

ClassInScope(u, cid) ==
    \E c \in DOMAIN classes : c = cid /\ classes[c] = TeacherProfile(u)

GradeInScope(u, gid) ==
    \E g \in DOMAIN finalGrades : g = gid /\ ClassInScope(u, finalGrades[g].class_obj)

NotifInScope(u, nid) ==
    \E n \in DOMAIN notifs : n = nid /\ notifs[n].recipient = u

\* a class-scoped view of monitoring/views.py asked for a class that is not
\* the teacher's answers Http404, in words that name the request only
ClassViewAlike(view, u, cid, method) ==
    /\ classResp' = [NoClassResp EXCEPT !.view = view, !.teacher = TeacherProfile(u),
                                        !.target = cid, !.method = method,
                                        !.status = 404, !.note = "Http404"]
    /\ StoreSame

\* C12: a scoped request whose target is not in the requester's scope gets
\* a response that depends on the request alone, the same whether the
\* target does not exist or exists as another user's record, and changes
\* no row; for child_detail, chat_room, send_message, mark_messages_read,
\* mark_notification_read and the class-scoped teacher views.
C12_OutOfScopeAlike ==
    [][ /\ \A u \in {x \in Users : IsParent(x)}, cid \in ChildIds :
              (childResp'.view = "child_detail" /\ ~ChildInScope(u, cid) /\ ChildDetail(u, cid))
                 => /\ childResp' = [NoChildResp EXCEPT
                                        !.view = "child_detail",
                                        !.parent = ParentProfile(u),
                                        !.child_id = cid,
                                        !.status = 302,
                                        !.note = "Child not found or you do not have access."]
                    /\ StoreSame
        /\ \A u \in {x \in Users : IsParent(x) \/ IsTeacher(x)}, rid \in RoomIds :
              /\ (chatResp'.view = "chat_room" /\ ~RoomInScope(u, rid) /\ ChatRoomView(u, rid))
                    => /\ chatResp' = [NoChatResp EXCEPT !.view = "chat_room", !.room = rid,
                                                         !.method = "GET", !.status = 404]
                       /\ StoreSame
              /\ (chatResp'.view = "mark_messages_read" /\ ~RoomInScope(u, rid)
                    /\ MarkMessagesRead(u, rid))
                    => /\ chatResp' = [NoChatResp EXCEPT !.view = "mark_messages_read",
                                                         !.room = rid, !.method = "POST",
                                                         !.status = 404]
                       /\ StoreSame
              /\ \A raw \in {c \in Contents : ~IsBlank(c)} :
                    (chatResp'.view = "send_message" /\ ~RoomInScope(u, rid)
                       /\ SendMessage(u, rid, raw))
                       => /\ chatResp' = [NoChatResp EXCEPT !.view = "send_message",
                                                            !.room = rid, !.method = "POST",
                                                            !.content = raw, !.status = 404]
                          /\ StoreSame
        /\ \A u \in NotifUsers, nid \in NotifIds, ajax \in BOOLEAN :
              (notifResp'.view = "mark_notification_read" /\ ~NotifInScope(u, nid)
                 /\ MarkNotificationRead(u, nid, ajax))
                 => /\ notifResp' = [NoNotifResp EXCEPT !.view = "mark_notification_read",
                                                        !.target = nid, !.status = 404,
                                                        !.note = "Http404"]
                    /\ StoreSame
        /\ \A u \in {x \in Users : IsTeacher(x)}, cid \in ClassIds :
              classResp' # NoClassResp /\ ~ClassInScope(u, cid) =>
                 /\ ClassDetail(u, cid) => ClassViewAlike("class_detail", u, cid, "GET")
                 /\ ClassStudents(u, cid) => ClassViewAlike("class_students", u, cid, "GET")
                 /\ ClassGrades(u, cid) => ClassViewAlike("class_grades", u, cid, "GET")
                 /\ \A method \in Methods :
                       UploadGrades(u, cid, method)
                          => ClassViewAlike("upload_grades", u, cid, method)
                 /\ DownloadGradeTemplate(u, cid)
                       => ClassViewAlike("download_grade_template", u, cid, "GET")
                 /\ ClassReport(u, cid) => ClassViewAlike("class_report", u, cid, "GET")
                 /\ TeacherClassDetail(u, cid)
                       => /\ classResp' =
                                [NoClassResp EXCEPT
                                    !.view = "users.class_detail",
                                    !.teacher = TeacherProfile(u), !.target = cid,
                                    !.method = "GET", !.status = 302,
                                    !.note = "Class not found or you do not have access."]
                          /\ StoreSame
        /\ \A u \in {x \in Users : IsTeacher(x)}, gid \in GradeIds, method \in Methods :
              (classResp'.view = "edit_grade" /\ ~GradeInScope(u, gid)
                 /\ EditGrade(u, gid, method))
                 => ClassViewAlike("edit_grade", u, gid, method) ]_vars

\* a request for a notification of another recipient has been answered as
\* one for a notification that does not exist
C12_Witness ==
    /\ notifResp.view = "mark_notification_read"
    /\ notifResp.status = 404
    /\ notifResp.target \in DOMAIN notifs
    /\ \A n \in DOMAIN notifs : ~notifs[n].is_read

(***************************************************************************)
(* Keywords of the chatbot, checked under SpecBot.                         *)
(***************************************************************************)

\* C24: a BotMessage answers a chatbot_query only because one of its
\* non-empty keywords occurs in the query; an empty entry of the keywords
\* field (as in 'ba,') does not make the record match every query.
C24_OnlyNonEmptyKeywordsSelect ==
    BotAnswered(botResp) /\ botResp.status = 200 =>
        \A b \in BotIds :
           botResp.body = bots[b].response_text =>
              LET keywords == GetKeywordsList(bots[b])
              IN  \E i \in 1..Len(keywords) :
                     keywords[i] # <<>> /\ Contains(botResp.query, keywords[i])

(***************************************************************************)
(* Properties of a student's records, checked under SpecStudent.           *)
(***************************************************************************)

\* the student is enrolled in a class of the teacher
EnrolledWith(sid, teacher) ==
    \E e \in ClassEnrollments :
       /\ e.student = sid
       /\ \E c \in DOMAIN classes : c = e.class_obj /\ classes[c] = teacher

\* C21: student_grades returns only final grades of classes the requesting
\* teacher owns, and student_attendance returns attendance rows only of a
\* student who is enrolled in one of the requesting teacher's classes, or
\* rows that teacher recorded.
C21_StudentRecordsInScope ==
    /\ studentResp.view = "student_grades" =>
          \A g \in studentResp.grades :
             \E c \in DOMAIN classes :
                c = g.class_obj /\ classes[c] = studentResp.teacher
    /\ studentResp.view = "student_attendance" =>
          \A i \in DOMAIN studentResp.attendance :
             \/ EnrolledWith(studentResp.student_id, studentResp.teacher)
             \/ studentResp.attendance[i].recorded_by = studentResp.teacher

(***************************************************************************)
(* Properties of the events, checked under SpecEvent.                      *)
(***************************************************************************)

\* C23: event_list lists an event if and only if it is active, its
\* start_date is today or later and it is not cancelled (Event.is_upcoming
\* among the active events), in ascending order of start_date.
C23_ListIsUpcomingActive ==
    eventResp.view = "event_list" =>
        /\ \A e \in DOMAIN events :
              (\E i \in DOMAIN eventResp.events : eventResp.events[i].id = e)
                 <=> (events[e].is_active /\ IsUpcoming(events[e]))
        /\ \A i, j \in DOMAIN eventResp.events :
              i < j => Ordinal(eventResp.events[i].start_date)
                          <= Ordinal(eventResp.events[j].start_date)

(***************************************************************************)
(* Properties of the interleaved mark-as-read loops, checked under         *)
(* SpecMark.                                                               *)
(***************************************************************************)

\* C22: over any interleaving of chat_room and mark_messages_read requests
\* the is_read of a ChatMessage goes only from false to true, its read_at is
\* written at that transition and never overwritten, is_read is true exactly
\* when read_at is not null, and no request of the sender of a message marks
\* it read.
C22_ReadStateChangesOnce ==
    [][ /\ \A i \in DOMAIN msgs :
              /\ msgs[i].is_read => msgs'[i].is_read
              /\ msgs[i].read_at # NoTime => msgs'[i].read_at = msgs[i].read_at
              /\ (~msgs[i].is_read /\ msgs'[i].is_read) =>
                    \A w \in Workers :
                       mloc'[w] # mloc[w] => mloc[w].user # msgs[i].sender
        /\ \A i \in DOMAIN msgs' :
              msgs'[i].is_read <=> msgs'[i].read_at # NoTime ]_vars

====
